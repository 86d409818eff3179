---------------------------- MODULE SeiProcessTxs ----------------------------
(***************************************************************************)
(* Sei: ProcessTxs with ProcessBlockConcurrent (sei/modified/app/app.go).  *)
(*                                                                         *)
(* One goroutine per transaction delivers it against a shared cached store *)
(* (processBlockCtx), ordered only by the channels of the dependency DAG,  *)
(* and sends its result on a channel.  When a result says that a           *)
(* transaction accessed state it had not declared, the whole batch is run  *)
(* again synchronously on the parent store.                                *)
(*                                                                         *)
(* External, modelled from how app.go uses them: DeliverTx (reads, then    *)
(* writes all its keys unless the access validator rejects it), the DAG    *)
(* (built from the declared accesses), the cached multi-store (Write puts  *)
(* every dirty key into the parent), the dex memory state.                 *)
(* The value of a key is the sequence of transactions that updated it.     *)
(***************************************************************************)
EXTENDS Naturals, Sequences, FiniteSets

CONSTANTS
    NumTxs,         \* len(txs)
    Keys,           \* keys of the multi-store
    Touches,        \* Touches[i]: the keys transaction i reads and writes
    Clean           \* marks a key the cache has not written

Txs == 1..NumTxs

ASSUME TxAssumption == NumTxs \in Nat /\ Touches \in [Txs -> SUBSET Keys]
ASSUME CleanAssumption == Clean \notin Seq(Txs)

VARIABLES
    bad,        \* transactions whose declared accesses are wrong
    store,      \* the parent store (DeliverState)
    cache,      \* processBlockCache
    mem,        \* transactions recorded in the dex memory state of the context
    tx,         \* tx[i]: "spawned", "read", "sent" (goroutine i)
    seen,       \* seen[i]: the values goroutine i read
    channel,    \* resultChan: the results sent and not yet received
    results,    \* txResultsMap, then the returned txResults
    phase,      \* "gather", "sync" or "done"
    next,       \* next transaction of ProcessBlockSynchronous
    badWasm     \* BadWasmDependencyAddresses of the context

vars == <<bad, store, cache, mem, tx, seen, channel, results, phase, next, badWasm>>

(* What a read through the cached store returns. *)
View(k) == IF cache[k] = Clean THEN store[k] ELSE cache[k]

(* Variant for mutation: no transaction waits for another. *)
NoBlocking(i) == {}

(* The blocking signals of transaction i: the earlier transactions whose
   declared accesses conflict with its own. *)
Blocking(i) ==
    {j \in 1..(i-1) : i \notin bad /\ j \notin bad /\ Touches[i] \cap Touches[j] # {}}

Init ==
    /\ bad \in SUBSET Txs
    /\ store = [k \in Keys |-> <<>>]
    /\ cache = [k \in Keys |-> Clean]
    /\ mem = <<>>
    /\ tx = [i \in Txs |-> "spawned"]
    /\ seen = [i \in Txs |-> [k \in {} |-> <<>>]]
    /\ channel = {}
    /\ results = [i \in {} |-> ""]
    /\ phase = "gather"
    /\ next = 1
    /\ badWasm = {}

(* ProcessTxConcurrent up to DeliverTx's reads: it waits for its blocking
   channels first. *)
DeliverRead(i) ==
    /\ tx[i] = "spawned"
    /\ \A j \in Blocking(i) : tx[j] = "sent"
    /\ seen' = [seen EXCEPT ![i] = [k \in Touches[i] |-> View(k)]]
    /\ tx' = [tx EXCEPT ![i] = "read"]
    /\ UNCHANGED <<bad, store, cache, mem, channel, results, phase, next, badWasm>>

(* ProcessTxConcurrent: DeliverTx writes (nothing when the validator rejects
   the accesses), the completion channels are signalled, the result is sent
   and wg.Done() runs.  The dex memory is not part of the cached store. *)
DeliverWrite(i) ==
    /\ tx[i] = "read"
    /\ cache' = IF i \in bad THEN cache
                ELSE [k \in Keys |-> IF k \in Touches[i] THEN Append(seen[i][k], i)
                                                         ELSE cache[k]]
    /\ mem' = Append(mem, i)
    /\ channel' = channel \cup
                    {[txIndex |-> i, code |-> IF i \in bad THEN "invalid" ELSE "ok"]}
    /\ tx' = [tx EXCEPT ![i] = "sent"]
    /\ UNCHANGED <<bad, store, seen, results, phase, next, badWasm>>

(* The range loop over resultChan: results arrive in any order. *)
Receive ==
    /\ phase = "gather"
    /\ \E r \in channel :
          /\ channel' = channel \ {r}
          /\ results' = [i \in DOMAIN results \cup {r.txIndex} |->
                            IF i = r.txIndex THEN r.code ELSE results[i]]
    /\ UNCHANGED <<bad, store, cache, mem, tx, seen, phase, next, badWasm>>

Closed == channel = {} /\ \A i \in Txs : tx[i] = "sent"
Invalid == {i \in DOMAIN results : results[i] = "invalid"}

(* processBlockCache.Write() *)
Flushed == [k \in Keys |-> View(k)]

(* ProcessTxs, concurrent execution succeeded. *)
WriteBack ==
    /\ phase = "gather"
    /\ Closed
    /\ Invalid = {}
    /\ store' = Flushed
    /\ phase' = "done"
    /\ UNCHANGED <<bad, cache, mem, tx, seen, channel, results, next, badWasm>>

(* Variants for mutation: the dex memory of the failed attempt is kept; the
   retry is concurrent again. *)
FallbackKeepsMemory ==
    /\ phase = "gather"
    /\ Closed
    /\ Invalid # {}
    /\ badWasm' = Invalid
    /\ results' = [i \in {} |-> ""]
    /\ phase' = "sync"
    /\ UNCHANGED <<bad, store, cache, mem, tx, seen, channel, next>>

FallbackConcurrent ==
    /\ phase = "gather"
    /\ Closed
    /\ Invalid # {}
    /\ badWasm' = Invalid
    /\ mem' = <<>>
    /\ cache' = [k \in Keys |-> Clean]
    /\ tx' = [i \in Txs |-> "spawned"]
    /\ results' = [i \in {} |-> ""]
    /\ UNCHANGED <<bad, store, seen, channel, phase, next>>

(* ProcessTxs, concurrent execution failed: the offending contracts are put
   into the context, the dex memory is copied and cleared. *)
Fallback ==
    /\ phase = "gather"
    /\ Closed
    /\ Invalid # {}
    /\ badWasm' = Invalid
    /\ mem' = <<>>
    /\ results' = [i \in {} |-> ""]
    /\ phase' = "sync"
    /\ UNCHANGED <<bad, store, cache, tx, seen, channel, next>>

(* DeliverTx of transaction i on the parent store. *)
Delivered(st, i) == [k \in Keys |-> IF k \in Touches[i] THEN Append(st[k], i) ELSE st[k]]

(* ProcessBlockSynchronous: one transaction on the parent store. *)
DeliverSync ==
    /\ phase = "sync"
    /\ next \in Txs
    /\ store' = Delivered(store, next)
    /\ mem' = Append(mem, next)
    /\ results' = [i \in DOMAIN results \cup {next} |->
                      IF i = next THEN "ok" ELSE results[i]]
    /\ next' = next + 1
    /\ UNCHANGED <<bad, cache, tx, seen, channel, phase, badWasm>>

(* The processBlockCache.Write() that follows ProcessBlockSynchronous. *)
FallbackWrite ==
    /\ phase = "sync"
    /\ next \notin Txs
    /\ store' = Flushed
    /\ phase' = "done"
    /\ UNCHANGED <<bad, cache, mem, tx, seen, channel, results, next, badWasm>>

(* ProcessTxs has returned. *)
Returned == phase = "done" /\ UNCHANGED vars

Next ==
    \/ \E i \in Txs : DeliverRead(i) \/ DeliverWrite(i)
    \/ Receive \/ WriteBack \/ Fallback \/ DeliverSync \/ FallbackWrite
    \/ Returned

Spec == Init /\ [][Next]_vars
FairSpec == Spec /\ WF_vars(Next)
-----------------------------------------------------------------------------

(* The store after the first n transactions of a synchronous run, and the one
   the run leaves. *)
SynchronousStore[n \in 0..NumTxs] ==
    IF n = 0 THEN [k \in Keys |-> <<>>] ELSE Delivered(SynchronousStore[n - 1], n)
SequentialStore == SynchronousStore[NumTxs]

(* A batch whose declared accesses were right leaves the store a synchronous
   run would leave, in whatever order the goroutines ran. *)
ConcurrentEquivalent == phase = "done" /\ badWasm = {} => store = SequentialStore

(* When the batch returns there is one result per transaction, at its own
   index, whatever order the goroutines finished in, and the dex memory holds
   every transaction once: of a failed attempt neither is left. *)
RecordedOnce ==
    phase = "done" =>
        /\ DOMAIN results = Txs /\ \A i \in Txs : results[i] = "ok"
        /\ Len(mem) = NumTxs /\ \A i \in Txs : \E k \in DOMAIN mem : mem[k] = i

(* ProcessTxs returns: no goroutine waits forever on a channel of the DAG, and
   the range loop over resultChan ends. *)
ProcessTxsReturns == <>(phase = "done")

(* The comment above the Write() of the successful branch: "if concurrent
   execution fails, this should not be called and the state is rolled back and
   retried with synchronous execution". *)
RolledBackOnFailure == phase = "done" /\ badWasm # {} => store = SequentialStore
=============================================================================
