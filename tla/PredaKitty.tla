----------------------------- MODULE PredaKitty -----------------------------
(***************************************************************************)
(* PREDA: the kitty breeding contract (preda/test_cases/Kitty.prd).  The   *)
(* list of all kitties is global, the list of new borns is per shard, the  *)
(* kitties themselves are with their owners' addresses.  breed takes three *)
(* relays, from the matron's owner to the sire's owner to the initiator;   *)
(* registerNewBorns takes one to the global scope and one to every owner.  *)
(* Relays are delivered once, in any order (external).  Block heights are  *)
(* left out: nothing depends on them.                                      *)
(***************************************************************************)
EXTENDS AptosNumerics, Integers, Bags, FiniteSets

CONSTANTS
    Owners, ShardOf,        \* addresses and their shards
    Genes,                  \* genes given to mint
    NewBorn,                \* the bit that marks a new born's id (0x80000000)
    MaxMints, MaxBreeds, MaxRegisters    \* bounds on the calls

ASSUME KittyAssumption == NewBorn > MaxMints + MaxBreeds

VARIABLES
    allKitties,     \* global: [gender, owner], with the kitty's number; id k at k + 1
    newBorns,       \* shard: the same of the kitties born in it
    myKitties,      \* address: id -> kitty
    relays,         \* the bag of relayed statements
    calls,          \* mint, breed and registerNewBorns calls made
    born,           \* ghost: the kitties ever made, in order
    reused,         \* ghost: a birth wrote over a new born not yet moved
    early           \* ghost: breed read a kitty that had not arrived

vars == <<allKitties, newBorns, myKitties, relays, calls, born, reused, early>>

Shards == {ShardOf[a] : a \in Owners}
NoParent == -1                                         \* 0xffffffff
Default == [n |-> 0, genes |-> 0, m |-> 0, s |-> 0]    \* n: ghost, the kitty's number in born

(* map[] on a key that is absent gives a default value.                    *)
Read(map, id) == IF id \in DOMAIN map THEN map[id] ELSE Default
Put(map, id, k) == [x \in DOMAIN map \cup {id} |-> IF x = id THEN k ELSE map[x]]
Erase(map, id) == [x \in DOMAIN map \ {id} |-> map[x]]

Relay(r) == SetToBag({r})
Pending(kind) == {r \in BagToSet(relays) : r.kind = kind}
OwnerOf(id) == allKitties[id + 1].owner

Init ==
    /\ allKitties = << >> /\ newBorns = [s \in Shards |-> << >>]
    /\ myKitties = [a \in Owners |-> [id \in {} |-> Default]]
    /\ relays = EmptyBag /\ calls = [mint |-> 0, breed |-> 0, register |-> 0]
    /\ born = << >> /\ reused = FALSE /\ early = FALSE

-----------------------------------------------------------------------------
(* mint, with create.                                                      *)
Mint(genes, gender, owner) ==
    /\ calls.mint < MaxMints /\ calls' = [calls EXCEPT !.mint = @ + 1]
    /\ allKitties' = Append(allKitties, [gender |-> gender, owner |-> owner, n |-> Len(born) + 1])
    /\ relays' = relays (+) Relay([kind |-> "mint", to |-> owner, id |-> Len(allKitties), genes |-> genes,
                                   n |-> Len(born) + 1])
    /\ born' = Append(born, [owner |-> owner, genes |-> genes])
    /\ UNCHANGED <<newBorns, myKitties, reused, early>>

(* mint at the owner.                                                      *)
MintOwner ==
    \E r \in Pending("mint") :
        /\ relays' = relays (-) Relay(r)
        /\ myKitties' = [myKitties EXCEPT ![r.to] =
               Put(@, r.id, [n |-> r.n, genes |-> r.genes, m |-> NoParent, s |-> NoParent])]
        /\ UNCHANGED <<allKitties, newBorns, calls, born, reused, early>>

(* breed: the assertions, and a relay to the matron's owner.               *)
Breed(a, m, s, gender) ==
    /\ calls.breed < MaxBreeds /\ calls' = [calls EXCEPT !.breed = @ + 1]
    /\ m < Len(allKitties) /\ s < Len(allKitties) /\ allKitties[m + 1].gender
    /\ relays' = relays (+) Relay([kind |-> "matron", to |-> OwnerOf(m), initiator |-> a,
                                   m |-> m, s |-> s, gender |-> gender])
    /\ UNCHANGED <<allKitties, newBorns, myKitties, born, reused, early>>

(* breed at the matron's owner: writing lastBreed makes an absent entry.   *)
BreedMatron ==
    \E r \in Pending("matron") :
        LET k == Read(myKitties[r.to], r.m)
        IN  /\ myKitties' = [myKitties EXCEPT ![r.to] = Put(@, r.m, k)]
            /\ relays' = (relays (-) Relay(r)) (+)
                   Relay([kind |-> "sire", to |-> OwnerOf(r.s), initiator |-> r.initiator, m |-> r.m,
                          s |-> r.s, gender |-> r.gender, m_genes |-> k.genes])
            /\ early' = (early \/ k = Default)
            /\ UNCHANGED <<allKitties, newBorns, calls, born, reused>>

(* Mutant: the sire is looked up with the matron's id.                     *)
BreedSireOfMatron ==
    \E r \in Pending("sire") :
        LET k == Read(myKitties[r.to], r.m)
        IN  /\ relays' = (relays (-) Relay(r)) (+)
                   Relay([kind |-> "birth", to |-> r.initiator, m |-> r.m, s |-> r.s,
                          gender |-> r.gender, genes |-> GenesMix(r.m_genes, k.genes)])
            /\ early' = (early \/ k = Default)
            /\ UNCHANGED <<allKitties, newBorns, myKitties, calls, born, reused>>

(* breed at the sire's owner: the genes are mixed.                         *)
BreedSire ==
    \E r \in Pending("sire") :
        LET k == Read(myKitties[r.to], r.s)
        IN  /\ relays' = (relays (-) Relay(r)) (+)
                   Relay([kind |-> "birth", to |-> r.initiator, m |-> r.m, s |-> r.s,
                          gender |-> r.gender, genes |-> GenesMix(r.m_genes, k.genes)])
            /\ early' = (early \/ k = Default)
            /\ UNCHANGED <<allKitties, newBorns, myKitties, calls, born, reused>>

(* Mutant: the new borns of the address, not of the shard, are counted.    *)
IdNbOfAddress(a) == NewBorn + Cardinality({id \in DOMAIN myKitties[a] : id >= NewBorn})

(* newBorns.length() with the new born bit, in the shard of the address.   *)
IdNb(a) == NewBorn + Len(newBorns[ShardOf[a]])

Child(r) == [n |-> Len(born) + 1, genes |-> r.genes, m |-> r.m, s |-> r.s]

(* breed at the initiator: the kitty and its entry among the new borns.    *)
BreedBirth ==
    \E r \in Pending("birth") :
        LET a == r.to
        IN  /\ relays' = relays (-) Relay(r)
            /\ myKitties' = [myKitties EXCEPT ![a] = Put(@, IdNb(a), Child(r))]
            /\ newBorns' = [newBorns EXCEPT ![ShardOf[a]] = Append(@,
                   [gender |-> r.gender, owner |-> a, n |-> Len(born) + 1])]
            /\ born' = Append(born, [owner |-> a, genes |-> r.genes])
            /\ reused' = (reused \/ IdNb(a) \in DOMAIN myKitties[a])
            /\ UNCHANGED <<allKitties, calls, early>>

(* registerNewBorns: the list goes to the global scope and is emptied.     *)
RegisterNewBorns(shard) ==
    /\ calls.register < MaxRegisters /\ calls' = [calls EXCEPT !.register = @ + 1]
    /\ newBorns[shard] # << >>
    /\ relays' = relays (+) Relay([kind |-> "collect", new_borns |-> newBorns[shard]])
    /\ newBorns' = [newBorns EXCEPT ![shard] = << >>]
    /\ UNCHANGED <<allKitties, myKitties, born, reused, early>>

(* registerNewBorns in the global scope.                                   *)
RegisterGlobal ==
    \E r \in Pending("collect") :
        /\ allKitties' = allKitties \o r.new_borns
        /\ relays' = (relays (-) Relay(r)) (+)
               SetToBag({[kind |-> "register", to |-> r.new_borns[i].owner, newBornIndex |-> i - 1,
                          id |-> Len(allKitties) + i - 1] : i \in DOMAIN r.new_borns})
        /\ UNCHANGED <<newBorns, myKitties, calls, born, reused, early>>

(* registerNewBorns at the owner: the kitty moves to its global id.        *)
RegisterOwner ==
    \E r \in Pending("register") :
        LET id_nb == NewBorn + r.newBornIndex
        IN  /\ relays' = relays (-) Relay(r)
            /\ myKitties' = [myKitties EXCEPT ![r.to] = Erase(Put(@, r.id, Read(@, id_nb)), id_nb)]
            /\ UNCHANGED <<allKitties, newBorns, calls, born, reused, early>>

Next ==
    \/ \E g \in Genes, gender \in BOOLEAN, a \in Owners : Mint(g, gender, a)
    \/ \E a \in Owners, m, s \in 0..(MaxMints + MaxBreeds), gender \in BOOLEAN : Breed(a, m, s, gender)
    \/ \E shard \in Shards : RegisterNewBorns(shard)
    \/ MintOwner \/ BreedMatron \/ BreedSire \/ BreedBirth \/ RegisterGlobal \/ RegisterOwner

Spec == Init /\ [][Next]_vars

-----------------------------------------------------------------------------

(* Where the kitty with number n is held.                                  *)
HeldAt(n) == {<<a, id>> \in UNION {{a} \X DOMAIN myKitties[a] : a \in Owners} :
                 myKitties[a][id].n = n}

Settled == relays = EmptyBag

(* Once the relays are delivered every kitty ever made is held once, by    *)
(* its owner, and every id of the global list stands for the kitty it was  *)
(* registered for, as long as no birth took the index of a new born whose  *)
(* registration was still under way.                                       *)
EveryKittyHeldOnce ==
    Settled /\ ~reused =>
        /\ \A n \in DOMAIN born : \E id \in DOMAIN myKitties[born[n].owner] :
              HeldAt(n) = {<<born[n].owner, id>>}
        /\ \A id \in 0..(Len(allKitties) - 1) :
              Read(myKitties[OwnerOf(id)], id).n = allKitties[id + 1].n

(* The genes of a kitty are the mixture of those its two parents were made *)
(* with, across the three relays of breed and the registration of parents  *)
(* under new ids, unless breed ran ahead of a parent's arrival.            *)
GenesOfParents ==
    ~early /\ ~reused => \A a \in Owners : \A id \in DOMAIN myKitties[a] :
        LET k == myKitties[a][id]
            Made(parent) == born[allKitties[parent + 1].n].genes
        IN  k.n > 0 /\ k.m # NoParent => k.genes = GenesMix(Made(k.m), Made(k.s))
=============================================================================
