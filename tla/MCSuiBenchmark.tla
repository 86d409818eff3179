--------------------------- MODULE MCSuiBenchmark ---------------------------
(***************************************************************************)
(* SuiBenchmark for TLC: the command lines of the repository's scripts and *)
(* smoke tests, with two to four transactions each.                        *)
(***************************************************************************)
EXTENDS SuiBenchmark

NoFile == [path |-> FALSE, rows |-> <<>>]
File(rows) == [path |-> TRUE, rows |-> rows]
Account(index, count) == [index |-> index, count |-> count, ok |-> TRUE]
Transfer(from, to) == [from |-> from, to |-> to, ok |-> TRUE]
Broken(row) == [row EXCEPT !.ok = FALSE]

Default ==
    [component |-> "WithTxManager", original |-> FALSE, kind |-> "ptb", deps |-> 1,
     txCount |-> 3, transfers |-> 0, dyn |-> 0, shared |-> 0, kitty |-> FALSE, land |-> 0,
     erc20 |-> FALSE, sample |-> FALSE, skipSigning |-> FALSE, checkpointSize |-> 2,
     accounts |-> NoFile, transfersCsv |-> NoFile]

(* run_ballot*.sh, run_million_pixel*.sh, run_airdrop.sh, smoke_tests.rs *)
Shared(n) == [Default EXCEPT !.shared = n]
Land(n) == [Default EXCEPT !.land = n, !.txCount = 2]
Dynamic == [Default EXCEPT !.dyn = 1, !.shared = 2, !.txCount = 2, !.transfers = 1]
Modes(c) == {[c EXCEPT !.component = m] :
                m \in {"WithTxManager", "ExecutionOnly", "CheckpointExecutor", "TxnSigning"}}
Publish == [Default EXCEPT !.kind = "publish", !.deps = 2, !.txCount = 2]

PlainConfigs ==
    {Shared(1), [Shared(2) EXCEPT !.txCount = 4], [Shared(2) EXCEPT !.original = TRUE], [Shared(4) EXCEPT !.txCount = 2],
     [Shared(2) EXCEPT !.original = TRUE, !.component = "Baseline", !.txCount = 2, !.sample = TRUE],
     [Shared(1) EXCEPT !.sample = TRUE, !.txCount = 2],
     [Default EXCEPT !.component = "Baseline", !.transfers = 2, !.txCount = 2],
     [Default EXCEPT !.component = "CheckpointExecutor", !.txCount = 1],
     [Shared(1) EXCEPT !.component = "CheckpointExecutor", !.skipSigning = TRUE, !.txCount = 4],
     Land(2), [Land(3) EXCEPT !.txCount = 3], [Land(1) EXCEPT !.component = "ExecutionOnly"], Publish}
    \cup Modes(Dynamic)

KittyConfigs ==
    {[Default EXCEPT !.kitty = TRUE, !.txCount = 2, !.component = m] :
        m \in {"WithTxManager", "Baseline", "TxnSigning", "ExecutionOnly"}}
    \cup {[Default EXCEPT !.kitty = TRUE, !.txCount = 1, !.land = 1, !.sample = TRUE],
          [Default EXCEPT !.kitty = TRUE, !.txCount = 2, !.shared = 1],
          [Default EXCEPT !.kitty = TRUE, !.txCount = 2, !.dyn = 1]}

(* run_erc20_replay.sh: account file and transfer file; also a broken row, *)
(* a sender with too many transfers, an unlisted account and a lost file.  *)
Rows == <<Account(7, 2), Account(5, 1), Account(9, 0)>>
Sends == <<Transfer(7, 5), Transfer(5, 9), Transfer(7, 9)>>
Replay == [Default EXCEPT !.erc20 = TRUE, !.accounts = File(Rows), !.transfersCsv = File(Sends)]

ReplayConfigs ==
    {Replay, [Replay EXCEPT !.component = "Baseline"], [Replay EXCEPT !.component = "TxnSigning"],
     [Replay EXCEPT !.transfersCsv.rows = Append(@, Broken(Transfer(9, 5)))],
     [Replay EXCEPT !.transfersCsv.rows = Append(@, Transfer(5, 7))],
     [Replay EXCEPT !.accounts.rows[3] = Broken(@)],
     [Replay EXCEPT !.accounts.rows = <<>>, !.sample = TRUE],
     [Replay EXCEPT !.accounts.rows = <<>>, !.transfersCsv.rows = <<>>, !.sample = TRUE],
     [Replay EXCEPT !.dyn = 1]}

MCConfigs == PlainConfigs \cup KittyConfigs \cup ReplayConfigs
=============================================================================
