----------------------------- MODULE SuiContext -----------------------------
(***************************************************************************)
(* BenchmarkContext of sui-single-node-benchmark: the accounts with their  *)
(* gas references, and the prepare steps that create the objects the       *)
(* workload needs before its transactions are generated.  Every batch of   *)
(* work is spawned as tasks that finish in any order; a task that panics   *)
(* is noticed when the batch is collected (`r.unwrap()`).                  *)
(*                                                                         *)
(* Accounts are numbered in address order; 0 is the admin account.         *)
(***************************************************************************)
EXTENDS SuiValidator, SequencesExt

CONSTANTS
    W16,          \* number of values of a u16 (65536 in the code)
    AdminGasId    \* id of the admin's gas object in the CSV case (10^16)

ASSUME WidthAssumption == W16 \in Nat \ {0} /\ AdminGasId \in Nat

VARIABLES
    cfg,        \* the command line
    pc,         \* what the main task does next, or "done", "panicked"
    gas,        \* account -> its gas_objects
    indexes,    \* account_indexes: CSV index -> account
    made,       \* objects created for the generator, by kind
    live,       \* the validator's object store
    committed,  \* references whose transaction's outputs were committed
    txs,        \* the batch: transactions, in vector order
    todo,       \* positions of the batch whose task has not finished
    results,    \* what the finished tasks returned, in completion order
    bad         \* a finished task of the batch panicked

ctxVars == <<cfg, gas, indexes, made, live, committed, txs, todo, results, bad, pc>>
-----------------------------------------------------------------------------
Accounts == DOMAIN gas \ {0}
UserAccounts == SetToSortSeq(Accounts, <)

(* csv.rs: unreadable rows are logged and dropped; no file, no rows. *)
GetRecordsFromFile(file) == SelectSeq(file.rows, LAMBDA r : r.ok)

GasObjectNumPerAccount(c) == IF c.kind = "ptb" THEN c.transfers + 1 ELSE 1

NewGasObject(idx) == Ref(<<"gas", idx>>, 1)
CreateGasObjects(num, startingId) == [i \in 1..num |-> NewGasObject(startingId + i - 1)]

BatchCreateAccountAndGas(num, per) ==
    [a \in 0..num-1 |-> CreateGasObjects(per, ((a + num - 1) % num) * per)]

BatchCreateAccountAndGasByIndex(rows) ==
    LET start[k \in 1..Len(rows)] ==
            IF k = 1 THEN 1 ELSE start[k - 1] + 2 * rows[k - 1].count
    IN  [a \in 0..Len(rows) |->
            IF a = 0 THEN CreateGasObjects(1, AdminGasId)
            ELSE CreateGasObjects(2 * rows[a].count, start[a])]

(* The last row of an index wins, as in account_indexes.insert. *)
AccountIndexes(rows) ==
    [x \in {rows[k].index : k \in DOMAIN rows} |->
        Max({k \in DOMAIN rows : rows[k].index = x})]

NoObjects == [root |-> <<>>, shared |-> <<>>, kitty |-> <<>>, land |-> <<>>,
              gene |-> <<>>, newKitty |-> <<>>]

NewContext(c) ==
    /\ cfg = c
    /\ IF c.accounts.path
       THEN LET rows == GetRecordsFromFile(c.accounts)
            IN  gas = BatchCreateAccountAndGasByIndex(rows) /\ indexes = AccountIndexes(rows)
       ELSE /\ gas = BatchCreateAccountAndGas(
                        c.txCount + 1 + (IF c.sample THEN 1 ELSE 0), GasObjectNumPerAccount(c))
            /\ indexes = <<>>
    /\ live = [id \in {r.id : r \in UNION {ToSet(gas[a]) : a \in DOMAIN gas}} |-> 1]
    /\ committed = {Ref(id, 1) : id \in DOMAIN live}
    /\ made = NoObjects
    /\ txs = <<>> /\ todo = {} /\ results = <<>> /\ bad = FALSE
    /\ pc = "publish"
-----------------------------------------------------------------------------
Goto(label) == pc' = label

Spawn(batch, label) ==
    /\ txs' = batch /\ todo' = DOMAIN batch /\ results' = <<>> /\ bad' = FALSE
    /\ Goto(label)

Finish(i) == todo' = todo \ {i} /\ UNCHANGED <<txs, pc>>

NoVersions == [o \in {} |-> 0]
Effects(tx, ver) == [tx |-> tx, ver |-> EffectsVersion(tx, ver)]

(* try_execute_immediately: the inputs must be there, then they are written. *)
Executable(store, tx, ver) ==
    CheckInput(tx) /\ ReadObjects(store, InputRefs(tx, ver))

ExecuteRaw(tx, ver) ==
    IF Executable(live, tx, ver)
    THEN /\ live' = CommitObjects(live, tx, ver)
         /\ results' = Append(results, Effects(tx, ver))
         /\ UNCHANGED bad
    ELSE bad' = TRUE /\ UNCHANGED <<live, results>>

(* execute_raw_transactions: one task per prepare transaction. *)
ExecuteRawTransaction(i) ==
    /\ pc \in {"root_run", "shared_run", "kitty_run", "land_run"}
    /\ i \in todo
    /\ ExecuteRaw(txs[i], NoVersions)
    /\ Finish(i)
    /\ UNCHANGED <<cfg, gas, indexes, made, committed>>

(* The references the effects of a transaction leave behind. *)
CreatedRef(e) == Ref(CHOOSE id \in e.tx.creates : TRUE, e.ver)
GasAfter(e) == Ref(e.tx.gas.id, e.ver)
OutputRefs(e) == {Ref(id, e.ver) : id \in ObjectsWritten(e.tx)}


CommitTransactionOutputs ==
    committed' = committed \cup UNION {OutputRefs(e) : e \in ToSet(results)}

(* Mutant: the accounts keep their old gas references. *)
RefreshGasObjectsDropped == UNCHANGED gas

RefreshGasObjects ==
    LET new == {GasAfter(e) : e \in ToSet(results)}
        Refreshed(r) == IF \E n \in new : n.id = r.id
                        THEN CHOOSE n \in new : n.id = r.id ELSE r
    IN  gas' = [a \in DOMAIN gas |->
                  IF a = 0 THEN gas[a] ELSE [k \in DOMAIN gas[a] |-> Refreshed(gas[a][k])]]

ByOwner == [a \in {e.tx.sender : e \in ToSet(results)} |->
                CreatedRef(CHOOSE e \in ToSet(results) : e.tx.sender = a)]

Collect(label, next) ==
    /\ pc = label /\ todo = {}
    /\ IF bad THEN Goto("panicked") /\ UNCHANGED <<gas, committed>>
       ELSE Goto(next) /\ CommitTransactionOutputs /\ RefreshGasObjects
    /\ UNCHANGED <<cfg, indexes, live, txs, todo, results, bad>>

(* Each account's creation transaction pays with its first gas object; an  *)
(* account without one makes the generator panic.                          *)
CreateTx(a, kind) ==
    Tx(a, Head(gas[a]), {}, {}, {}, {<<kind, a>>})

SpawnCreates(accounts, kind, label) ==
    IF \E a \in ToSet(accounts) : gas[a] = <<>>
    THEN Goto("panicked") /\ UNCHANGED <<txs, todo, results, bad>>
    ELSE Spawn([k \in DOMAIN accounts |-> CreateTx(accounts[k], kind)], label)

Skip(next) == Goto(next) /\ UNCHANGED <<txs, todo, results, bad>>
Take(n) == SubSeq(UserAccounts, 1, Min({n, Len(UserAccounts)}))
-----------------------------------------------------------------------------
(* Publishing the benchmark's package, or the manifest's dependencies one  *)
(* after the other: the admin pays with gas_objects[0] and keeps the new   *)
(* reference.  Nothing is committed here.                                  *)
Published == Cardinality(DOMAIN live \cap {<<"package", d>> : d \in 1..cfg.deps})

PublishPackage ==
    /\ pc = "publish"
    /\ LET tx == Tx(0, gas[0][1], {}, {}, {}, {<<"package", Published + 1>>})
       IN  \/ /\ Published = cfg.deps
              /\ Goto(IF cfg.kind = "ptb" THEN "root" ELSE "generate")
              /\ UNCHANGED <<live, gas>>
           \/ /\ Published < cfg.deps /\ Executable(live, tx, NoVersions)
              /\ live' = CommitObjects(live, tx, NoVersions)
              /\ gas' = [gas EXCEPT ![0][1] = GasAfter(Effects(tx, NoVersions))]
              /\ UNCHANGED pc
           \/ /\ Published < cfg.deps /\ ~Executable(live, tx, NoVersions)
              /\ Goto("panicked")
              /\ UNCHANGED <<live, gas>>
    /\ UNCHANGED <<cfg, indexes, made, committed, txs, todo, results, bad>>

PreparingDynamicFields ==
    /\ pc = "root"
    /\ IF cfg.dyn = 0 THEN Skip("shared") ELSE SpawnCreates(UserAccounts, "root", "root_run")
    /\ UNCHANGED <<cfg, gas, indexes, made, live, committed>>

CollectRootObjects ==
    /\ Collect("root_run", "shared")
    /\ made' = IF bad THEN made ELSE [made EXCEPT !.root = ByOwner]

PrepareSharedObjects ==
    /\ pc = "shared"
    /\ IF cfg.shared = 0 THEN Skip("kitty")
       ELSE IF cfg.shared > Len(UserAccounts) THEN Skip("panicked")
       ELSE SpawnCreates(Take(cfg.shared), "shared", "shared_run")
    /\ UNCHANGED <<cfg, gas, indexes, made, live, committed>>

CollectSharedObjects ==
    /\ Collect("shared_run", "kitty")
    /\ made' = IF bad THEN made
               ELSE [made EXCEPT !.shared = [k \in DOMAIN results |-> CreatedRef(results[k])]]

PrepareKittyObjects ==
    /\ pc = "kitty"
    /\ IF ~cfg.kitty THEN Skip("land") ELSE SpawnCreates(UserAccounts, "kitty", "kitty_run")
    /\ UNCHANGED <<cfg, gas, indexes, made, live, committed>>

CollectKittyObjects ==
    /\ Collect("kitty_run", "land")
    /\ made' = IF bad THEN made ELSE [made EXCEPT !.kitty = ByOwner]

PrepareLandObjects ==
    /\ pc = "land"
    /\ IF cfg.land = 0 THEN Skip("generate") ELSE SpawnCreates(Take(cfg.land), "land", "land_run")
    /\ UNCHANGED <<cfg, gas, indexes, made, live, committed>>

(* The key of the k-th land object is a u16 counter, which wraps. *)
CollectLandObjects ==
    /\ Collect("land_run", "generate")
    /\ made' = IF bad THEN made
               ELSE [made EXCEPT !.land =
                       [x \in {(k - 1) % W16 : k \in DOMAIN results} |->
                           CreatedRef(results[Max({k \in DOMAIN results : (k - 1) % W16 = x})])]]

CreateTxGenerator ==
    \/ PublishPackage
    \/ PreparingDynamicFields \/ CollectRootObjects
    \/ PrepareSharedObjects \/ CollectSharedObjects
    \/ PrepareKittyObjects \/ CollectKittyObjects
    \/ PrepareLandObjects \/ CollectLandObjects
    \/ \E i \in todo : ExecuteRawTransaction(i)
=============================================================================
