--------------------------- MODULE AptosContracts ---------------------------
(* The Move contracts of the Aptos benchmark.                              *)
EXTENDS AptosNumerics, FiniteSets

CONSTANT W16    \* the width of u16

ASSUME PixelWidthAssumption == W16 \in Nat \ {0}

None == 0 - 1
AirdropAmount == 100
Proposals == 1..3

(* The resources before any contract is called.                            *)
NoResources(accs) ==
    [coin |-> [a \in accs |-> None], ballot |-> [a \in accs |-> << >>],
     land |-> [a \in accs |-> [exists |-> FALSE, owners |-> {}]],
     kitties |-> [exists |-> FALSE, all |-> << >>], mine |-> [a \in accs |-> {}], born |-> 0]

----------------------------------------------------------------------------
(* The Move contracts.  A call gives the set of the store after it, empty  *)
(* when it aborts.                                                         *)

(* xtl_airdrop initialize.                                                 *)
AirdropInitialize(st, t) ==
    IF st.coin[t.sender] # None THEN {} ELSE {[st EXCEPT !.coin[t.sender] = t.amount]}

(* Mutant: deposit uses the balance read before the withdrawal.            *)
TransferNStale(st, t) ==
    LET step(coin, r) == [coin EXCEPT ![t.sender] = @ - AirdropAmount, ![r] = coin[r] + AirdropAmount]
        n == Len(t.to)
    IN  IF st.coin[t.sender] = None THEN {}
        ELSE IF st.coin[t.sender] < AirdropAmount * n THEN {st}
        ELSE {[st EXCEPT !.coin = FoldLeft(step, st.coin, t.to)]}

(* xtl_airdrop transfer_n: withdraw and deposit once per recipient, if the *)
(* balance covers them all.                                                *)
TransferN(st, t) ==
    LET step(coin, r) == [[coin EXCEPT ![t.sender] = @ - AirdropAmount]
                             EXCEPT ![r] = @ + AirdropAmount]
        n == Len(t.to)
    IN  IF st.coin[t.sender] = None THEN {}
        ELSE IF st.coin[t.sender] < AirdropAmount * n THEN {st}
        ELSE IF \E i \in 1..n : st.coin[t.to[i]] = None THEN {}
        ELSE {[st EXCEPT !.coin = FoldLeft(step, st.coin, t.to)]}

(* xtl_ballot initialize and vote.                                         *)
BallotInitialize(st, t) ==
    IF st.ballot[t.sender] # << >> THEN {}
    ELSE {[st EXCEPT !.ballot[t.sender] = [p \in Proposals |-> 0]]}

Vote(st, t) ==
    IF t.proposal \notin DOMAIN st.ballot[t.to] THEN {}
    ELSE {[st EXCEPT !.ballot[t.to][t.proposal] = @ + 1]}

(* xtl_ballot finalize, a view: the weights of the forums are added up and *)
(* the loop keeps an index while max_weight > v.                           *)
Finalize(st, forums) ==
    LET res == [p \in Proposals |-> FoldLeft(LAMBDA w, f : w + st.ballot[f][p], 0, forums)]
        step(best, p) == IF best.max > res[p] THEN [winner |-> p, max |-> res[p]] ELSE best
    IN  [winner |-> FoldLeft(step, [winner |-> 1, max |-> 0], <<1, 2, 3>>).winner, weights |-> res]

(* xtl_million_pixel initialize and occupy.                                *)
PixelInitialize(st, t) ==
    IF st.land[t.sender].exists THEN {} ELSE {[st EXCEPT !.land[t.sender].exists = TRUE]}

Occupy(st, t) ==
    LET index == t.x * W16 + t.y
    IN  IF ~st.land[t.to].exists THEN {}
        ELSE IF \E o \in st.land[t.to].owners : o.index = index THEN {st}
        ELSE {[st EXCEPT !.land[t.to].owners = @ \cup {[index |-> index, owner |-> t.sender]}]}

(* xtl_kitty add_new_kitty: table::add aborts when the owner has the id.   *)
AddNewKitty(st, owner, genes, id) ==
    IF \E k \in st.mine[owner] : k.id = id THEN {}
    ELSE {[st EXCEPT !.mine[owner] = @ \cup {[id |-> id, genes |-> genes]}]}

(* xtl_kitty initialize, mint (with create) and breed.                     *)
KittyInitialize(st, t) ==
    IF st.kitties.exists THEN {} ELSE {[st EXCEPT !.kitties.exists = TRUE]}

Mint(st, t) ==
    IF ~st.kitties.exists THEN {}
    ELSE AddNewKitty([st EXCEPT !.kitties.all = Append(@, [gender |-> t.gender, owner |-> t.sender])],
                     t.sender, t.genes, Len(st.kitties.all))

Breed(st, t) ==
    LET all == st.kitties.all
        genesOf(id) == {k.genes : k \in {k \in st.mine[all[id + 1].owner] : k.id = id}}
    IN  IF t.m >= Len(all) \/ t.s >= Len(all) \/ st.mine[t.sender] = {} THEN {}
        ELSE UNION {LET g == GenesMix(mg, sg)
                    IN  {[s EXCEPT !.born = @ + 1] : s \in AddNewKitty(st, t.sender, g, g)} :
                        mg \in genesOf(t.m), sg \in genesOf(t.s)}

(* The entry function a transaction calls.  coin_transfer and empty leave  *)
(* the contracts' resources alone.                                         *)
Call(st, t) ==
    CASE t.fn = "airdrop_initialize" -> AirdropInitialize(st, t)
      [] t.fn = "transfer_n"         -> TransferN(st, t)
      [] t.fn = "ballot_initialize"  -> BallotInitialize(st, t)
      [] t.fn = "vote"               -> Vote(st, t)
      [] t.fn = "mp_initialize"      -> PixelInitialize(st, t)
      [] t.fn = "occupy"             -> Occupy(st, t)
      [] t.fn = "kitty_initialize"   -> KittyInitialize(st, t)
      [] t.fn = "mint"               -> Mint(st, t)
      [] t.fn = "breed"              -> Breed(st, t)
      [] OTHER                       -> {st}
=============================================================================
