-------------------------- MODULE MCAptosSimulator --------------------------
(* Command lines for the simulator, with account 1 as the forum, the       *)
(* global store or the collection where the benchmark has one.             *)
EXTENDS AptosSimulator

Command(prog, accounts, txns) ==
    [prog |-> prog, accounts |-> accounts, txns |-> txns, shards |-> 1, runs |-> 1,
     rows |-> << >>, par |-> TRUE, seq |-> TRUE]

Replay(rows, runs, par, seq) ==
    [Command("erc20", 3, 0) EXCEPT !.rows = rows, !.runs = runs, !.par = par, !.seq = seq]

MCConfigs ==
    {Command("airdrop", 2, 3), Command("ballot", 3, 3), Command("mp", 3, 3),
     Command("empty", 3, 4), Command("kitty", 3, 2)}
    \cup {[Command("ballot_sharding", n + 2, 2) EXCEPT !.shards = n] : n \in 1..3}
    \cup {Replay(r, n, p, s) : r \in {<<<<0, 1>>, <<0, 0>>, <<2, 0>>, <<0, 2>>>>,
                                      <<<<1, 2>>, <<None, 1>>, <<1, 1>>>>,
                                      <<<<0, 3>>>>},
                               n \in 0..3, p \in BOOLEAN, s \in BOOLEAN}

MaxGenes == 400

(* xtl_kitty sqrt, from which the genes and the id of a kitten are built:  *)
(* the iteration stops at the largest y with y * y <= x, for 0 and 1 too.  *)
SqrtIsFloor ==
    Init => \A x \in 0..MaxGenes :
        LET y == Sqrt(x) IN y * y <= x /\ x < (y + 1) * (y + 1)
=============================================================================
