---------------------------- MODULE SuiBenchmark ----------------------------
(***************************************************************************)
(* The two drivers of sui-single-node-benchmark, run_benchmark and         *)
(* run_kitty_test, from the generation of the transactions to the end of   *)
(* the measured phase, for the components that do not go through the       *)
(* consensus adapter (SuiConsensus has those).                             *)
(***************************************************************************)
EXTENDS SuiContext

CONSTANT Configs    \* the command lines to run

VARIABLES
    locked,    \* owned references locked by handle_transaction
    assigned,  \* per transaction of the batch: shared id -> version
    mem,       \* the in-memory object store
    ckpts,     \* checkpoints, as sequences of positions of the batch
    sent,      \* how many of them were inserted and broadcast
    round      \* run_kitty_test: 1 provide_gene, 2 breed

runVars == <<locked, assigned, mem, ckpts, sent, round>>
vars == <<ctxVars, runVars>>

Init ==
    /\ \E c \in Configs : NewContext(c)
    /\ locked = {} /\ assigned = <<>> /\ mem = <<>> /\ ckpts = <<>> /\ sent = 0
    /\ round = 1

Prepare == CreateTxGenerator /\ UNCHANGED runVars
-----------------------------------------------------------------------------
(* Generation: one task per account or CSV row, its arguments fixed when   *)
(* it is spawned, its transaction added to the vector when it finishes.    *)
Args(a, shared, obj, fn) == [a |-> a, shared |-> shared, obj |-> obj, fn |-> fn]

ForEachAccount(fn) ==
    LET n == Len(made.shared)
    IN  [i \in 1..Len(UserAccounts) |->
            Args(UserAccounts[i], IF n = 0 \/ fn # 0 THEN 0 ELSE i % n, 0, fn)]

GenerateTransactions ==
    /\ pc = "generate" /\ ~cfg.kitty /\ ~cfg.transfersCsv.path
    /\ Spawn(ForEachAccount(0), "generate_run")
    /\ UNCHANGED <<cfg, gas, indexes, made, live, committed, runVars>>

GenerateKittyProvideGeneTransactions ==
    /\ pc = "generate" /\ cfg.kitty /\ round = 1
    /\ Spawn(ForEachAccount(1), "generate_run")
    /\ UNCHANGED <<cfg, gas, indexes, made, live, committed, runVars>>

GenerateKittyBreedTransactions ==
    /\ pc = "generate" /\ cfg.kitty /\ round = 2
    /\ Spawn(ForEachAccount(2), "generate_run")
    /\ UNCHANGED <<cfg, gas, indexes, made, live, committed, runVars>>

(* obj_index_map: the n-th transfer of a sender uses its n-th object pair. *)
ObjIndex(rows, k) == Cardinality({j \in 1..k-1 : rows[j].from = rows[k].from})

GenerateErc20TxFromCsv ==
    /\ pc = "generate" /\ ~cfg.kitty /\ cfg.transfersCsv.path
    /\ LET rows == GetRecordsFromFile(cfg.transfersCsv)
       IN  IF \A k \in DOMAIN rows : {rows[k].from, rows[k].to} \subseteq DOMAIN indexes
           THEN Spawn([k \in DOMAIN rows |-> Args(indexes[rows[k].from], 0, ObjIndex(rows, k), 0)],
                      "generate_run")
           ELSE Skip("panicked")
    /\ UNCHANGED <<cfg, gas, indexes, made, live, committed, runVars>>

(* MoveTxGenerator::generate_tx, for a random land key.  The original      *)
(* program passes every shared object, the modified one the indexed one.   *)
LandLen == Cardinality(DOMAIN made.land) % W16
LandKeys == IF DOMAIN made.land = {} THEN {0} ELSE 0..(W16 * W16 - 1)

SharedUsed(arg) ==
    IF made.shared = <<>> THEN {}
    ELSE IF cfg.original THEN {r.id : r \in ToSet(made.shared)}
    ELSE {made.shared[arg.shared + 1].id}

LandUsed(key) == IF DOMAIN made.land = {} THEN {} ELSE {made.land[key % LandLen].id}

KittyUsed(arg) ==
    IF DOMAIN made.kitty = {} THEN {}
    ELSE IF arg.fn = 1 THEN {made.kitty[arg.a]}
    ELSE {made.gene[arg.a], made.newKitty[arg.a]}

CoinIndex(arg) == Len(gas[arg.a]) \div 2 + arg.obj

GeneratorPanics(arg) ==
    \/ Len(gas[arg.a]) <= Max({cfg.transfers, arg.obj})
    \/ cfg.erc20 /\ CoinIndex(arg) >= Len(gas[arg.a])
    \/ DOMAIN made.land # {} /\ LandLen = 0

GenerateTx(arg, key) ==
    LET g == gas[arg.a]
    IN  IF cfg.kind = "publish" THEN Tx(arg.a, g[1], {}, {}, {}, {<<"published", arg.a>>})
        ELSE Tx(arg.a, g[arg.obj + 1],
                {g[i + 1] : i \in 1..cfg.transfers}
                    \cup (IF DOMAIN made.root = {} THEN {} ELSE {made.root[arg.a]})
                    \cup (IF cfg.erc20 THEN {g[CoinIndex(arg) + 1]} ELSE {})
                    \cup KittyUsed(arg),
                SharedUsed(arg) \cup LandUsed(key),
                IF arg.fn = 2 THEN {made.gene[arg.a].id} ELSE {},
                IF arg.fn = 0 THEN {} ELSE {<<IF arg.fn = 1 THEN "gene" ELSE "child", arg.a>>})

GenerateTask(i) ==
    /\ pc = "generate_run" /\ i \in todo
    /\ IF GeneratorPanics(txs[i]) THEN bad' = TRUE /\ UNCHANGED results
       ELSE /\ \E key \in LandKeys : results' = Append(results, GenerateTx(txs[i], key))
            /\ UNCHANGED bad
    /\ Finish(i)
    /\ UNCHANGED <<cfg, gas, indexes, made, live, committed, runVars>>

CollectTransactions ==
    /\ pc = "generate_run" /\ todo = {}
    /\ IF bad THEN Skip("panicked")
       ELSE Spawn(results, IF cfg.component = "TxnSigning" THEN "sign_run" ELSE "certify_run")
    /\ UNCHANGED <<cfg, gas, indexes, made, live, committed, runVars>>
-----------------------------------------------------------------------------
(* handle_transaction (external): the owned inputs are current and not     *)
(* locked by another transaction, and become locked.                       *)
HandleTransaction(tx) ==
    /\ bad' = (bad \/ ~CheckInput(tx) \/ ~ReadObjects(live, OwnedRefs(tx))
                   \/ OwnedRefs(tx) \cap locked # {})
    /\ locked' = locked \cup OwnedRefs(tx)

SignTransaction(i) ==
    /\ pc = "sign_run" /\ i \in todo
    /\ HandleTransaction(txs[i])
    /\ Finish(i)
    /\ UNCHANGED <<cfg, gas, indexes, made, live, committed, results>>
    /\ UNCHANGED <<assigned, mem, ckpts, sent, round>>

CollectSignatures ==
    /\ pc = "sign_run" /\ todo = {}
    /\ Skip(IF bad \/ (cfg.sample /\ txs = <<>>) THEN "panicked" ELSE "done")
    /\ UNCHANGED <<cfg, gas, indexes, made, live, committed, runVars>>

CertifyTransaction(i) ==
    /\ pc = "certify_run" /\ i \in todo
    /\ IF cfg.skipSigning THEN UNCHANGED <<bad, locked>> ELSE HandleTransaction(txs[i])
    /\ results' = Append(results, txs[i])
    /\ Finish(i)
    /\ UNCHANGED <<cfg, gas, indexes, made, live, committed>>
    /\ UNCHANGED <<assigned, mem, ckpts, sent, round>>

AssignedSharedObjectVersions ==
    /\ pc = "certify_run" /\ todo = {}
    /\ IF bad THEN Skip("panicked") /\ UNCHANGED assigned
       ELSE /\ assigned' = AssignedVersions(live, results)
            /\ Spawn(results, IF cfg.kitty THEN "execute" ELSE "sample")
    /\ UNCHANGED <<cfg, gas, indexes, made, live, committed>>
    /\ UNCHANGED <<locked, mem, ckpts, sent, round>>
-----------------------------------------------------------------------------
(* The sample is the first of the vector, so that it takes its shared      *)
(* objects at their current versions.                                      *)
SampleTx == Head(txs)
(* Mutant: the last transaction is lost with the sample. *)
AfterSampleTooShort == /\ txs' = Tail(txs) /\ assigned' = Tail(assigned)
                       /\ todo' = 1..(Len(txs) - 2)

AfterSample == /\ txs' = Tail(txs) /\ assigned' = Tail(assigned)
               /\ todo' = 1..(Len(txs) - 1)

ExecuteSampleTransaction ==
    /\ pc = "sample"
    /\ \/ /\ ~cfg.sample /\ cfg.component # "CheckpointExecutor"
          /\ Goto("execute")
          /\ UNCHANGED <<live, txs, assigned, todo>>
       \/ /\ cfg.sample \/ cfg.component = "CheckpointExecutor"
          /\ IF txs # <<>> /\ Executable(live, SampleTx, assigned[1])
             THEN live' = CommitObjects(live, SampleTx, assigned[1]) /\ AfterSample /\ Goto("execute")
             ELSE Goto("panicked") /\ UNCHANGED <<live, txs, assigned, todo>>
    /\ UNCHANGED <<cfg, gas, indexes, made, committed, results, bad>>
    /\ UNCHANGED <<locked, mem, ckpts, sent, round>>

HasSharedObject == \E tx \in ToSet(txs) : tx.shared # {}
InMemory == cfg.component \in {"ExecutionOnly", "CheckpointExecutor"}

(* The in-memory store is a copy of the validator's live objects. *)
StartExecution ==
    /\ pc = "execute"
    /\ IF InMemory /\ ~cfg.kitty THEN mem' = live /\ Goto("memory_run")
       ELSE Goto("execute_run") /\ UNCHANGED mem
    /\ UNCHANGED <<cfg, gas, indexes, made, live, committed, txs, todo, results, bad>>
    /\ UNCHANGED <<locked, assigned, ckpts, sent, round>>

(* The modified program spawns every certificate at once; the original     *)
(* awaits them one by one when a transaction of the batch is shared.       *)
InOrder == cfg.original /\ HasSharedObject
MayRun(i, ordered) == i \in todo /\ (ordered => i = Min(todo) /\ ~bad)
Finished(ordered) == todo = {} \/ (ordered /\ bad)

(* Baseline executes at once; the transaction manager first waits for the  *)
(* inputs; the other components are unreachable!().                        *)
ExecuteCertificate(i) ==
    /\ pc = "execute_run" /\ MayRun(i, InOrder)
    /\ \/ /\ cfg.component = "Baseline"
          /\ ExecuteRaw(txs[i], assigned[i])
       \/ /\ cfg.component = "WithTxManager"
          /\ ReadObjects(live, InputRefs(txs[i], assigned[i]))
          /\ ExecuteRaw(txs[i], assigned[i])
       \/ /\ InMemory
          /\ bad' = TRUE /\ UNCHANGED <<live, results>>
    /\ Finish(i)
    /\ UNCHANGED <<cfg, gas, indexes, made, committed, runVars>>

CollectExecution ==
    /\ pc = "execute_run" /\ Finished(InOrder)
    /\ Skip(IF bad THEN "panicked" ELSE IF cfg.kitty /\ round = 1 THEN "genes" ELSE "done")
    /\ UNCHANGED <<cfg, gas, indexes, made, live, committed>>
    /\ UNCHANGED <<locked, assigned, mem, ckpts, sent, round>>

(* run_kitty_test: the gene, and as the kitty the first of the mutated     *)
(* owned objects that is not the gas object, whichever that is.            *)
CollectGeneObjects ==
    /\ Collect("genes", "generate")
    /\ \E kitty \in [DOMAIN made.kitty -> {r.id : r \in UNION {e.tx.owned : e \in ToSet(results)}}] :
          LET Of(a) == CHOOSE e \in ToSet(results) : e.tx.sender = a
          IN  /\ \A a \in DOMAIN kitty : \E r \in Of(a).tx.owned : r.id = kitty[a]
              /\ made' = [made EXCEPT !.gene = ByOwner,
                            !.newKitty = [a \in DOMAIN kitty |-> Ref(kitty[a], Of(a).ver)]]
    /\ round' = 2
    /\ UNCHANGED <<locked, assigned, mem, ckpts, sent>>
-----------------------------------------------------------------------------
ExecuteTransactionInMemory(i) ==
    /\ pc = "memory_run" /\ MayRun(i, HasSharedObject)
    /\ IF Executable(mem, txs[i], assigned[i])
       THEN mem' = CommitObjects(mem, txs[i], assigned[i]) /\ UNCHANGED bad
       ELSE bad' = TRUE /\ UNCHANGED mem
    /\ Finish(i)
    /\ UNCHANGED <<cfg, gas, indexes, made, live, committed, results>>
    /\ UNCHANGED <<locked, assigned, ckpts, sent, round>>


BuildCheckpoints(run, size) ==
    LET Push(b, tx) ==
            IF Len(b.pending) + 1 = size
            THEN [built |-> Append(b.built, Append(b.pending, tx)), pending |-> <<>>]
            ELSE [b EXCEPT !.pending = Append(@, tx)]
        last == FoldLeft(Push, [built |-> <<>>, pending |-> <<>>], run)
    IN  IF last.pending = <<>> THEN last.built ELSE Append(last.built, last.pending)

CollectInMemory ==
    /\ pc = "memory_run" /\ Finished(HasSharedObject)
    /\ LET built == BuildCheckpoints([i \in DOMAIN txs |-> i], cfg.checkpointSize)
       IN  \/ bad /\ Skip("panicked") /\ UNCHANGED ckpts
           \/ ~bad /\ cfg.component = "ExecutionOnly" /\ Skip("done") /\ UNCHANGED ckpts
           \/ /\ ~bad /\ cfg.component = "CheckpointExecutor"
              /\ ckpts' = built
              /\ Skip(IF built = <<>> THEN "panicked" ELSE "checkpoints")
    /\ UNCHANGED <<cfg, gas, indexes, made, live, committed>>
    /\ UNCHANGED <<locked, assigned, mem, sent, round>>

InsertCheckpoint ==
    /\ pc = "checkpoints"
    /\ \/ /\ sent < Len(ckpts)
          /\ sent' = sent + 1
          /\ UNCHANGED <<pc, todo>>
       \/ /\ sent = Len(ckpts)
          /\ todo' = DOMAIN txs /\ Goto("epoch_run")
          /\ UNCHANGED sent
    /\ UNCHANGED <<cfg, gas, indexes, made, live, committed, txs, results, bad>>
    /\ UNCHANGED <<locked, assigned, mem, ckpts, round>>

(* run_epoch (external): the transactions of the broadcast checkpoints go  *)
(* through the transaction manager, at the versions of their effects.      *)
RunEpoch(i) ==
    /\ pc = "epoch_run" /\ i \in todo
    /\ \E k \in 1..sent : i \in ToSet(ckpts[k])
    /\ ReadObjects(live, InputRefs(txs[i], assigned[i]))
    /\ ExecuteRaw(txs[i], assigned[i])
    /\ Finish(i)
    /\ UNCHANGED <<cfg, gas, indexes, made, committed, runVars>>

CollectEpoch ==
    /\ pc = "epoch_run" /\ todo = {}
    /\ Skip(IF bad THEN "panicked" ELSE "done")
    /\ UNCHANGED <<cfg, gas, indexes, made, live, committed, runVars>>

Next ==
    \/ Prepare
    \/ GenerateTransactions \/ GenerateErc20TxFromCsv
    \/ GenerateKittyProvideGeneTransactions \/ GenerateKittyBreedTransactions
    \/ CollectTransactions \/ CollectSignatures \/ AssignedSharedObjectVersions
    \/ ExecuteSampleTransaction \/ StartExecution \/ CollectExecution
    \/ CollectGeneObjects \/ CollectInMemory \/ InsertCheckpoint \/ CollectEpoch
    \/ \E i \in todo : \/ GenerateTask(i) \/ SignTransaction(i) \/ CertifyTransaction(i)
                       \/ ExecuteCertificate(i) \/ ExecuteTransactionInMemory(i) \/ RunEpoch(i)

(* Fairness: the tokio runtime polls every ready task until it finishes. *)
Spec == Init /\ [][Next]_vars /\ WF_vars(Next)
-----------------------------------------------------------------------------

(* What the command lines below promise not to do: more shared objects     *)
(* than accounts, 65536 land objects, shared objects under the concurrent  *)
(* Baseline; under the kitty test in-memory components or other owned      *)
(* inputs beside the kitty; prepare steps for a CSV account without gas; a *)
(* checkpoint run of one transaction, a sample of none; a CSV sender with  *)
(* more transfers than its count or an unlisted account.                   *)
Supported(c) ==
    LET rows  == GetRecordsFromFile(c.accounts)
        sends == GetRecordsFromFile(c.transfersCsv)
        n     == IF c.transfersCsv.path THEN Len(sends) ELSE Cardinality(Accounts)
    IN  /\ c.shared <= Cardinality(Accounts)
        /\ Min({c.land, Cardinality(Accounts)}) < W16
        /\ (c.component = "Baseline" /\ ~c.original) => c.shared = 0 /\ c.land = 0
        /\ c.kitty => /\ c.component \notin {"ExecutionOnly", "CheckpointExecutor"}
                      /\ c.dyn = 0 /\ c.transfers = 0
        /\ (c.accounts.path /\ (c.kitty \/ c.dyn + c.shared + c.land > 0)) =>
                \A k \in DOMAIN rows : rows[k].count > 0
        /\ c.component = "CheckpointExecutor" => n >= 2
        /\ c.sample => n >= 1
        /\ \A k \in DOMAIN sends :
              /\ {sends[k].from, sends[k].to} \subseteq {rows[j].index : j \in DOMAIN rows}
              /\ \E j \in DOMAIN rows :
                    /\ rows[j].index = sends[k].from
                    /\ Cardinality({l \in DOMAIN sends : sends[l].from = sends[k].from}) <= rows[j].count

(* Whatever order tasks finish in, no unwrap, assert or index of a         *)
(* supported run fails: no reference used by any prepare or benchmark      *)
(* transaction is stale (refresh_gas_objects, kitty and gene references),  *)
(* no lock conflicts, every assigned shared version is there.              *)
SupportedNeverPanics == pc = "panicked" => ~Supported(cfg)

(* When a run is done, every object a transaction of the batch wrote has   *)
(* the version the last writer, in vector order, gives it: the concurrent  *)
(* execution left the same store as the in-order one.                      *)
FinalStoreIsInOrder ==
    LET store == IF InMemory THEN mem ELSE live
    IN  (pc = "done" /\ cfg.component # "TxnSigning") =>
            \A i \in DOMAIN txs : \A id \in ObjectsWritten(txs[i]) :
                (\A j \in i+1..Len(txs) : id \notin ObjectsWritten(txs[j])) =>
                    id \in DOMAIN store /\ store[id] = EffectsVersion(txs[i], assigned[i])



(* Every run ends: with the transaction manager no transaction waits for   *)
(* an input version nobody is going to write.                              *)
RunEnds == <>(pc \in {"done", "panicked"})
=============================================================================
