----------------------------- MODULE PredaBallot -----------------------------
(***************************************************************************)
(* PREDA: the ballot contract (preda/test_cases/Ballot.prd).               *)
(*                                                                         *)
(* Voters live in address scopes, the vote counters in shard scopes, the   *)
(* proposals and the result in the global scope.  finalize relays to the   *)
(* global scope, from there to every shard (relay@shards), and each shard  *)
(* relays its counters back; the global scope knows that the last one is   *)
(* in when a fixed-point ratio reaches one.  Relays are delivered exactly  *)
(* once and in any order (External), and votes keep arriving meanwhile.    *)
(*                                                                         *)
(* A proposal's name is its index; the name of no proposal is NoProposal.  *)
(***************************************************************************)
EXTENDS Integers, Sequences, Bags, FiniteSets, FiniteSetsExt

CONSTANTS
    Voters,
    weight,             \* weight[v], set by the script before the ballot
    ShardOrder,         \* __block.get_shard_order(): 2^ShardOrder shards
    ShardOf,            \* the shard of a voter's address
    RatioBits,          \* width of shardGatherRatio (32 in the source)
    NumNames,           \* proposals added by one init
    MaxCases,           \* bound: inits sent
    FinalizesPerCase    \* bound: finalizes sent for one case

Shards == 1..2^ShardOrder
NoProposal == 0
One == 2^(RatioBits - 1)

ASSUME ShardAssumption ==
    /\ ShardOrder \in Nat
    /\ RatioBits \in Nat
    /\ ShardOrder < RatioBits
    /\ ShardOf \in [Voters -> Shards]
ASSUME VoterAssumption ==
    /\ IsFiniteSet(Voters)
    /\ weight \in [Voters -> Nat]

VARIABLES
    current_case, proposals, last_result, shardGatherRatio,    \* global scope
    votedWeights,                                              \* shard scopes
    voted_case,                                                \* address scopes
    relays,         \* the bag of relayed statements in flight
    finalizes,      \* finalizes sent for the current case
    ballots,        \* history: accepted votes <<voter, proposal, case>>
    early           \* history: those cast before the first finalize was sent

global == <<current_case, proposals, last_result, shardGatherRatio>>
history == <<ballots, early>>
vars == <<global, votedWeights, voted_case, relays, finalizes, history>>

Relay(kind, shard, votes) ==
    SetToBag({[kind |-> kind, shard |-> shard, votes |-> votes]})
InitRelay == [kind |-> "init", shard |-> 0, votes |-> << >>]
Pending(kind) == {r \in BagToSet(relays) : r.kind = kind}

is_voting == last_result.case < current_case

Init ==
    /\ current_case = 0
    /\ proposals = << >>
    /\ last_result = [topVoted |-> NoProposal, case |-> 0]
    /\ shardGatherRatio = 0
    /\ votedWeights = [s \in Shards |-> << >>]
    /\ voted_case = [v \in Voters |-> 0]
    /\ relays = EmptyBag
    /\ finalizes = 0
    /\ ballots = {}
    /\ early = {}
-----------------------------------------------------------------------------
(* init: a failed assertion reverts the transaction. *)
InitCase ==
    /\ current_case + CopiesIn(InitRelay, relays) < MaxCases
    /\ ~is_voting
    /\ relays' = relays (+) SetToBag({InitRelay})
    /\ UNCHANGED <<global, votedWeights, voted_case, finalizes, history>>

(* The statement init relays to the global scope. *)
InitGlobal ==
    \E r \in Pending("init") :
        /\ relays' = relays (-) SetToBag({r})
        /\ proposals' = proposals \o [i \in 1..NumNames |-> 0]
        /\ current_case' = current_case + 1
        /\ last_result' = [topVoted |-> NoProposal, case |-> 0]
        /\ finalizes' = 0
        /\ UNCHANGED <<shardGatherRatio, votedWeights, voted_case, history>>

(* array.set_length (External): new elements are zero. *)
SetLength(votes, n) == [i \in 1..n |-> IF i \in DOMAIN votes THEN votes[i] ELSE 0]

(* Variant for mutation: a voter may vote again in the same case. *)
VoteAgain(v, p, case_num) ==
    LET s == ShardOf[v]
    IN  /\ case_num = current_case
        /\ p <= Len(proposals)
        /\ voted_case' = [voted_case EXCEPT ![v] = case_num]
        /\ votedWeights' = [votedWeights EXCEPT
                ![s] = [SetLength(@, Len(proposals)) EXCEPT ![p] = @ + weight[v]]]
        /\ ballots' = ballots \union {<<v, p, case_num>>}
        /\ UNCHANGED <<global, relays, finalizes, early>>

(* vote *)
Vote(v, p, case_num) ==
    LET s == ShardOf[v]
    IN  /\ case_num = current_case
        /\ case_num > voted_case[v]
        /\ p <= Len(proposals)
        /\ voted_case' = [voted_case EXCEPT ![v] = case_num]
        /\ votedWeights' = [votedWeights EXCEPT
                ![s] = [SetLength(@, Len(proposals)) EXCEPT ![p] = @ + weight[v]]]
        /\ ballots' = ballots \union {<<v, p, case_num>>}
        /\ UNCHANGED <<global, relays, finalizes, early>>

(* finalize *)
Finalize ==
    /\ finalizes < FinalizesPerCase
    /\ is_voting
    /\ relays' = relays (+) Relay("start", 0, << >>)
    /\ finalizes' = finalizes + 1
    /\ early' = IF finalizes = 0 THEN ballots ELSE early
    /\ UNCHANGED <<global, votedWeights, voted_case, ballots>>

(* finalize in the global scope: shardGather_reset, and a relay per shard. *)
FinalizeStart ==
    \E r \in Pending("start") :
        /\ relays' = (relays (-) SetToBag({r}))
                     (+) SetToBag({[kind |-> "shard", shard |-> s, votes |-> << >>] : s \in Shards})
        /\ shardGatherRatio' = 0
        /\ UNCHANGED <<current_case, proposals, last_result, votedWeights,
                       voted_case, finalizes, history>>

(* finalize in a shard scope: its counters go to the global scope. *)
FinalizeShard ==
    \E r \in Pending("shard") :
        /\ relays' = (relays (-) SetToBag({r})) (+) Relay("gather", r.shard, votedWeights[r.shard])
        /\ UNCHANGED <<global, votedWeights, voted_case, finalizes, history>>

(* The loop of finalize: the first proposal with the largest positive weight. *)
TopVoted(totals) ==
    LET best == {i \in DOMAIN totals : /\ totals[i] > 0
                                       /\ \A j \in DOMAIN totals : totals[j] <= totals[i]}
    IN  IF best = {} THEN NoProposal ELSE Min(best)

(* Variants for mutation: the unit is not, or too much, divided by the number
   of shards. *)
GatheredAtOnce == (shardGatherRatio + One) % 2^RatioBits
GatheredHalf == (shardGatherRatio + One \div 2^(ShardOrder + 1)) % 2^RatioBits

(* shardGather_gather: the fixed-point sum, which wraps at the word. *)
Gathered == (shardGatherRatio + One \div 2^ShardOrder) % 2^RatioBits

(* finalize back in the global scope: add one shard's counters; the call that
   brings the ratio to one settles the result. *)
FinalizeGather ==
    \E r \in Pending("gather") :
        /\ relays' = relays (-) SetToBag({r})
        /\ proposals' = [i \in DOMAIN proposals |->
                IF i \in DOMAIN r.votes THEN proposals[i] + r.votes[i] ELSE proposals[i]]
        /\ shardGatherRatio' = Gathered
        /\ IF Gathered = One
           THEN last_result' = [case |-> current_case,
                                topVoted |-> IF TopVoted(proposals') # NoProposal
                                             THEN TopVoted(proposals') ELSE last_result.topVoted]
           ELSE UNCHANGED last_result
        /\ UNCHANGED <<current_case, votedWeights, voted_case, finalizes, history>>

(* The relayed statements, which the chain executes. *)
Relayed == InitGlobal \/ FinalizeStart \/ FinalizeShard \/ FinalizeGather

Next ==
    \/ InitCase
    \/ Finalize
    \/ \E v \in Voters, p \in 1..(NumNames * MaxCases + 1), c \in 1..MaxCases : Vote(v, p, c)
    \/ Relayed

(* The chain keeps executing relayed statements; nobody has to call. *)
Spec == Init /\ [][Next]_vars
FairSpec == Spec /\ WF_vars(Relayed)
-----------------------------------------------------------------------------

WeightFor(p, votes) == MapThenSumSet(LAMBDA b : IF b[2] = p THEN weight[b[1]] ELSE 0, votes)

(* A finalize counts a weight at most once: no total exceeds the weights of
   those who voted for the proposal, once for every finalize sent, whatever
   order the relays and the votes take.  Two finalizes that overlap do count
   it twice, as is_voting() is checked before the relays. *)
CountedOncePerFinalize ==
    \A p \in DOMAIN proposals : proposals[p] <= finalizes * WeightFor(p, ballots)

(* The published result of a case that was finalized once counts every vote
   cast before the finalize was sent, and names the first of the proposals with
   the most weight.  (Two finalizes that overlap can bring the ratio to one with
   two answers of one shard and none of the other.) *)
ResultComplete ==
    (current_case > 0 /\ ~is_voting /\ finalizes = 1) =>
        /\ \A p \in DOMAIN proposals : proposals[p] >= WeightFor(p, early)
        /\ last_result.topVoted = TopVoted(proposals)

(* finalize settles the case, even when a second finalize resets the ratio while
   the shards' answers to the first are still coming in. *)
FinalizeCompletes ==
    \A c \in 1..MaxCases :
        (finalizes > 0 /\ current_case = c) ~> (last_result.case = c)
=============================================================================
