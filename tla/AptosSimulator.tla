--------------------------- MODULE AptosSimulator ---------------------------
(* The contract benchmarks on Aptos: the simulator numbers transactions    *)
(* from its account universe, applies an initialization block to the data  *)
(* store, then executes the measured block in parallel and sequentially on *)
(* that same store.  The block executor gives the outputs of the block in  *)
(* order, which is what AptosExecuteBlock shows of it.                     *)
EXTENDS AptosContracts

CONSTANTS
    Configs,       \* [prog, accounts, txns, shards, runs, rows, par, seq] of a command line
    Genes,         \* what rng.gen_range gives as genes
    Pixels,        \* the coordinates of occupy
    Receivers,     \* the recipients of one airdrop transfer (5 in the code)
    InitialCoins,  \* 1_000_000_000 in the code
    Times,         \* milliseconds of a measured execution
    W8             \* the width of u8

ASSUME WidthAssumption == W8 \in Nat \ {0}

VARIABLES
    cfg,      \* the command
    lastByte, \* address()[31] of every account
    seqs,     \* AccountCurrent.sequence_number of the universe
    store,    \* state_view: the sequence numbers and the contracts' resources
    block,    \* the transactions generated
    outputs,  \* the outputs of every measured execution
    run,      \* measurements taken
    pc

vars == <<cfg, lastByte, seqs, store, block, outputs, run, pc>>

Accounts == 1..cfg.accounts

----------------------------------------------------------------------------
(* The VM: a wrong sequence number discards; an abort keeps only the       *)
(* sequence number.                                                        *)
VM(st, t) ==
    LET bump(s) == [s EXCEPT !.seq[t.sender] = @ + 1]
    IN  IF t.seq # st.seq[t.sender] THEN [status |-> "discard", state |-> st]
        ELSE IF Call(st, t) = {} THEN [status |-> "abort", state |-> bump(st)]
        ELSE [status |-> "success", state |-> bump(CHOOSE s \in Call(st, t) : TRUE)]

(* BlockAptosVM::execute_block: the outputs of the block in order.         *)
ExecuteBlock(st, txns) ==
    LET after[k \in 0..Len(txns)] ==
            IF k = 0 THEN [status |-> "success", state |-> st] ELSE VM(after[k - 1].state, txns[k])
    IN  [k \in 1..Len(txns) |-> after[k]]

AllSucceed(outs) == \A k \in DOMAIN outs : outs[k].status = "success"

----------------------------------------------------------------------------
(* The transaction builders.                                               *)
PeerToPeerTxn(s, to, n) == [fn |-> "transfer", sender |-> s, seq |-> n, to |-> to]
AirdropInitializeTxn(s, n) == [fn |-> "airdrop_initialize", sender |-> s, seq |-> n, amount |-> InitialCoins]
AirdropTransferTxn(s, to, n) == [fn |-> "transfer_n", sender |-> s, seq |-> n, to |-> to]
BallotInitializeTxn(s, n) == [fn |-> "ballot_initialize", sender |-> s, seq |-> n]
BallotVoteTxn(s, forum, p, n) == [fn |-> "vote", sender |-> s, seq |-> n, to |-> forum, proposal |-> p]
MillionPixelInitializeTxn(s, n) == [fn |-> "mp_initialize", sender |-> s, seq |-> n]
MillionPixelOccupyTxn(s, g, x, y, n) == [fn |-> "occupy", sender |-> s, seq |-> n, to |-> g, x |-> x, y |-> y]
KittyInitializeTxn(s, n) == [fn |-> "kitty_initialize", sender |-> s, seq |-> n]
KittyMintTxn(s, genes, gender, n) == [fn |-> "mint", sender |-> s, seq |-> n, genes |-> genes, gender |-> gender]
KittyBreedTxn(s, m, sire, n) == [fn |-> "breed", sender |-> s, seq |-> n, m |-> m, s |-> sire]
EmptyEmptyTxn(s, n) == [fn |-> "empty", sender |-> s, seq |-> n]

----------------------------------------------------------------------------
(* with_account_nums: every account enters the store and the universe with *)
(* the same sequence number.                                               *)
Init ==
    /\ cfg \in Configs
    /\ lastByte \in [Accounts -> IF cfg.prog = "ballot_sharding" THEN 0..(W8 - 1) ELSE {0}]
    /\ seqs = [a \in Accounts |-> a]
    /\ store = [seq |-> seqs] @@ NoResources(Accounts)
    /\ block = << >> /\ outputs = << >> /\ run = 0 /\ pc = "start"

(* The initialization block is built and its senders are numbered.         *)
Initialize(txns) ==
    /\ pc = "start"
    /\ block' = txns
    /\ seqs' = [a \in Accounts |-> seqs[a] + Len(SelectSeq(txns, LAMBDA t : t.sender = a))]
    /\ pc' = "apply"
    /\ UNCHANGED <<cfg, lastByte, store, outputs, run>>

(* The first part of run_airdrop, run_ballot and run_ballot_sharding,      *)
(* run_mp.                                                                 *)
InitializeAirdrop ==
    cfg.prog = "airdrop" /\ Initialize([a \in Accounts |-> AirdropInitializeTxn(a, seqs[a])])

InitializeBallot ==
    cfg.prog = "ballot" /\ Initialize(<<BallotInitializeTxn(1, seqs[1])>>)

InitializeBallotSharding ==
    /\ cfg.prog = "ballot_sharding"
    /\ Initialize([i \in 1..cfg.shards |-> BallotInitializeTxn(i, seqs[i])])

InitializeMp ==
    cfg.prog = "mp" /\ Initialize(<<MillionPixelInitializeTxn(1, seqs[1])>>)

(* The initialization block of run_kitty: the collection, then a matron    *)
(* for every other account, then a sire for every other account.           *)
KittyMints(genes) ==
    LET n == cfg.accounts - 1
    IN  <<KittyInitializeTxn(1, seqs[1])>> \o
        [i \in 1..(2 * n) |-> IF i <= n THEN KittyMintTxn(i + 1, genes[i], TRUE, seqs[i + 1])
                              ELSE KittyMintTxn(i - n + 1, genes[i], FALSE, seqs[i - n + 1] + 1)]

InitializeKitty ==
    /\ cfg.prog = "kitty"
    /\ \E genes \in [1..(2 * (cfg.accounts - 1)) -> Genes] : Initialize(KittyMints(genes))

(* run_empty and replay_erc20 have no initialization block.  The replay    *)
(* asserts that something runs, and divides by the number of runs.         *)
NoInitialization ==
    /\ cfg.prog \in {"empty", "erc20"} /\ pc = "start"
    /\ pc' = IF cfg.runs = 0 \/ ~(cfg.par \/ cfg.seq) THEN "panic" ELSE "generate"
    /\ UNCHANGED <<cfg, lastByte, seqs, store, block, outputs, run>>

(* execute_and_apply_transactions: every output is asserted to be a        *)
(* success and then applied.                                               *)
ExecuteAndApplyTransactions ==
    /\ pc = "apply"
    /\ LET outs == ExecuteBlock(store, block)
           good == {k \in DOMAIN outs : \A l \in 1..k : outs[l].status = "success"}
       IN  /\ store' = IF good = {} THEN store ELSE outs[Cardinality(good)].state
           /\ pc' = IF AllSucceed(outs) THEN "generate" ELSE "failed"
    /\ block' = << >>
    /\ UNCHANGED <<cfg, lastByte, seqs, outputs, run>>

----------------------------------------------------------------------------
Complete == Len(block) = IF cfg.prog = "erc20" THEN Len(cfg.rows) ELSE cfg.txns

(* One more transaction: its sender's number is used and advanced.         *)
Generate(t) ==
    /\ pc = "generate" /\ ~Complete
    /\ block' = Append(block, t)
    /\ seqs' = [seqs EXCEPT ![t.sender] = @ + 1]
    /\ UNCHANGED <<cfg, lastByte, store, outputs, run, pc>>

GenerateAirdrop ==
    /\ cfg.prog = "airdrop"
    /\ \E a \in Accounts, to \in [1..Receivers -> Accounts] :
          Generate(AirdropTransferTxn(a, to, seqs[a]))

GenerateBallot ==
    /\ cfg.prog = "ballot"
    /\ \E a \in Accounts \ {1}, p \in Proposals : Generate(BallotVoteTxn(a, 1, p, seqs[a]))

(* The forum of a voter: the last byte of its address modulo shard_num as  *)
(* a u8.                                                                   *)
ForumsIndex(a) == lastByte[a] % (cfg.shards % W8)

(* run_ballot_sharding: a multiple of 256 shards makes the divisor zero.   *)
GenerateBallotSharding ==
    /\ cfg.prog = "ballot_sharding"
    /\ \E a \in Accounts, p \in Proposals :
          /\ a > cfg.shards
          /\ IF cfg.shards % W8 = 0
             THEN /\ pc = "generate" /\ ~Complete /\ pc' = "panic"
                  /\ UNCHANGED <<cfg, lastByte, seqs, store, block, outputs, run>>
             ELSE Generate(BallotVoteTxn(a, ForumsIndex(a) + 1, p, seqs[a]))

GenerateMp ==
    /\ cfg.prog = "mp"
    /\ \E a \in Accounts \ {1}, x \in Pixels, y \in Pixels :
          Generate(MillionPixelOccupyTxn(a, 1, x, y, seqs[a]))

GenerateKitty ==
    /\ cfg.prog = "kitty"
    /\ LET n == cfg.accounts - 1
       IN  \E a \in Accounts \ {1}, m \in 0..(n - 1), s \in n..(2 * n - 1) :
              Generate(KittyBreedTxn(a, m, s, seqs[a]))

GenerateEmpty ==
    cfg.prog = "empty" /\ \E a \in Accounts : Generate(EmptyEmptyTxn(a, seqs[a]))

(* read_csv_with_header: a field that does not parse counts as 0.          *)
ReadCsvWithHeader(rows) ==
    [k \in DOMAIN rows |-> [i \in 1..2 |-> IF rows[k][i] = None THEN 0 ELSE rows[k][i]]]


(* gen_transaction_for_erc20: the first row of a sender takes the number   *)
(* of the universe, every further row the next one in seq_map.  The        *)
(* universe itself keeps its numbers.                                      *)
Erc20Block(graph) ==
    [k \in DOMAIN graph |->
        PeerToPeerTxn(graph[k][1] + 1, graph[k][2] + 1,
            seqs[graph[k][1] + 1] + Cardinality({l \in 1..(k - 1) : graph[l][1] = graph[k][1]}))]

GenTransactionForErc20 ==
    /\ cfg.prog = "erc20" /\ pc = "generate" /\ ~Complete
    /\ LET graph == ReadCsvWithHeader(cfg.rows)
       IN  IF \A k \in DOMAIN graph : {graph[k][1] + 1, graph[k][2] + 1} \subseteq Accounts
           THEN block' = Erc20Block(graph) /\ UNCHANGED pc
           ELSE pc' = "panic" /\ UNCHANGED block
    /\ UNCHANGED <<cfg, lastByte, seqs, store, outputs, run>>

----------------------------------------------------------------------------
(* One measured execution: the throughput divides by the milliseconds, and *)
(* then every output is asserted to be a success.                          *)
Measured(next) ==
    \E time \in Times :
        LET outs == ExecuteBlock(store, block)
        IN  /\ outputs' = Append(outputs, outs)
            /\ pc' = IF time = 0 THEN "panic" ELSE IF AllSucceed(outs) THEN next ELSE "failed"

(* execute_blockstm_benchmark: the parallel execution, unless skipped, and *)
(* then the sequential one.                                                *)
ExecuteBenchmarkParallel ==
    /\ pc = "generate" /\ Complete
    /\ IF cfg.par THEN Measured("sequential") ELSE pc' = "sequential" /\ UNCHANGED outputs
    /\ UNCHANGED <<cfg, lastByte, seqs, store, block, run>>

ExecuteBenchmarkSequential ==
    /\ pc = "sequential"
    /\ IF cfg.seq THEN Measured("measured") ELSE pc' = "measured" /\ UNCHANGED outputs
    /\ UNCHANGED <<cfg, lastByte, seqs, store, block, run>>

(* The loop of replay_erc20; the other commands measure once.              *)
NextRun ==
    /\ pc = "measured"
    /\ run' = run + 1
    /\ IF cfg.prog = "erc20" /\ run' < cfg.runs
       THEN pc' = "generate" /\ block' = << >>
       ELSE pc' = "done" /\ UNCHANGED block
    /\ UNCHANGED <<cfg, lastByte, seqs, store, outputs>>

Next ==
    \/ InitializeAirdrop \/ InitializeBallot \/ InitializeBallotSharding \/ InitializeMp
    \/ InitializeKitty \/ NoInitialization \/ ExecuteAndApplyTransactions
    \/ GenerateAirdrop \/ GenerateBallot \/ GenerateBallotSharding \/ GenerateMp
    \/ GenerateKitty \/ GenerateEmpty \/ GenTransactionForErc20
    \/ ExecuteBenchmarkParallel \/ ExecuteBenchmarkSequential \/ NextRun

Spec == Init /\ [][Next]_vars

----------------------------------------------------------------------------

(* The kitten a transaction of run_kitty breeds: its genes are its id.     *)
Kitten(t) ==
    LET genesOf(id) == (CHOOSE k \in store.mine[store.kitties.all[id + 1].owner] : k.id = id).genes
    IN  GenesMix(genesOf(t.m), genesOf(t.s))

(* A sender breeds an id that it has, by its minted kitties or by another  *)
(* transaction of the block: table::add aborts.                            *)
SameKitten ==
    \E l \in DOMAIN block :
        \/ \E k \in store.mine[block[l].sender] : k.id = Kitten(block[l])
        \/ \E k \in 1..(l - 1) : /\ block[k].sender = block[l].sender
                                 /\ Kitten(block[k]) = Kitten(block[l])


(* What the contracts keep over the block, for every choice of senders and *)
(* arguments.  Airdrops move coins and create none, even to the sender or  *)
(* several times to one recipient.  Every vote is counted once, in the     *)
(* forum of its voter's shard: after k votes the weights of all forums add *)
(* up to k.  A pixel belongs to its first occupant, and to one only.       *)
ContractsKeepBooks ==
    \A i \in DOMAIN outputs : \A k \in DOMAIN outputs[i] :
        LET st == outputs[i][k].state
            weights == Finalize(st, [f \in 1..cfg.shards |-> f]).weights
            later == {outputs[i][l].state.land[1].owners : l \in k..Len(outputs[i])}
        IN  /\ cfg.prog = "airdrop" =>
                  FoldFunction(+, 0, st.coin) = cfg.accounts * InitialCoins
            /\ cfg.prog \in {"ballot", "ballot_sharding"} =>
                  weights[1] + weights[2] + weights[3] = k
            /\ cfg.prog = "mp" =>
                  \A owners \in later :
                      /\ st.land[1].owners \subseteq owners
                      /\ \A o, q \in owners : o.index = q.index => o = q
=============================================================================
