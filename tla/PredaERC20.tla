----------------------------- MODULE PredaERC20 -----------------------------
(***************************************************************************)
(* PREDA: the token contract (preda/test_cases/ERC20.prd; the uint256      *)
(* variant ERC20_uint256.prd differs in the integer type only).            *)
(*                                                                         *)
(* `balance` lives in the scope of its address.  A transfer debits the     *)
(* sender's scope and relays the credit to the recipient's; the relayed    *)
(* statement runs later, in any order with other transactions.  The chain  *)
(* delivers every relay exactly once (External).                           *)
(***************************************************************************)
EXTENDS Integers, Sequences, Bags, FiniteSets, Functions

CONSTANTS
    Addresses,
    InitialBalance,     \* the balance the scripts set before they start
    Amounts,            \* amounts a transaction may name
    MaxPayments,        \* bound: payments of one transfer_n
    MaxRelays,          \* bound: relays in flight
    MaxSupply           \* bound: tokens minted

(* The amounts the scripts name are not negative, as those of the uint256
   variant cannot be. *)
ASSUME TokenAssumption ==
    /\ IsFiniteSet(Addresses)
    /\ InitialBalance \in Nat /\ Amounts \subseteq Nat
    /\ MaxPayments \in Nat \ {0}

VARIABLES
    balance,    \* balance[a]
    relays,     \* the bag of relayed credits in flight
    supply      \* tokens that exist: set by the script or minted

vars == <<balance, relays, supply>>

Credit(to, amount) == SetToBag({[to |-> to, amount |-> amount]})
InFlight == BagCardinality(relays)

Init ==
    /\ balance = [a \in Addresses |-> InitialBalance]
    /\ relays = EmptyBag
    /\ supply = InitialBalance * Cardinality(Addresses)

(* transfer: refused (return false) when the balance is too small. *)
Transfer(from, to, amount) ==
    /\ InFlight < MaxRelays
    /\ balance[from] >= amount
    /\ balance' = [balance EXCEPT ![from] = @ - amount]
    /\ relays' = relays (+) Credit(to, amount)
    /\ UNCHANGED supply

(* The relayed statement of transfer and transfer_n. *)
RelayCredit ==
    \E r \in BagToSet(relays) :
        /\ relays' = relays (-) SetToBag({r})
        /\ balance' = [balance EXCEPT ![r.to] = @ + r.amount]
        /\ UNCHANGED supply

(* mint *)
Mint(a, value) ==
    /\ value >= 0
    /\ supply + value <= MaxSupply
    /\ balance' = [balance EXCEPT ![a] = @ + value]
    /\ supply' = supply + value
    /\ UNCHANGED relays

Total(recipients) == SumFunction([i \in DOMAIN recipients |-> recipients[i].amount])

Paid(recipients) == {i \in DOMAIN recipients : recipients[i].amount > 0}

(* Variant for mutation: equal payments are relayed once. *)
CreditsOnce(recipients) == SetToBag({recipients[i] : i \in Paid(recipients)})

(* The relays of transfer_n: one per recipient with a positive amount. *)
Credits(recipients) ==
    [p \in {recipients[i] : i \in Paid(recipients)} |->
        Cardinality({i \in Paid(recipients) : recipients[i] = p})]

(* Variant for mutation: every amount is compared with the balance alone. *)
TransferNOneByOne(from, recipients) ==
    /\ InFlight + Len(recipients) <= MaxRelays
    /\ \A i \in DOMAIN recipients : recipients[i].amount \in 0..balance[from]
    /\ balance' = [balance EXCEPT ![from] = @ - Total(recipients)]
    /\ relays' = relays (+) Credits(recipients)
    /\ UNCHANGED supply

(* transfer_n: the amounts are asserted and summed, then debited at once. *)
TransferN(from, recipients) ==
    /\ InFlight + Len(recipients) <= MaxRelays
    /\ \A i \in DOMAIN recipients : recipients[i].amount >= 0
    /\ Total(recipients) <= balance[from]
    /\ balance' = [balance EXCEPT ![from] = @ - Total(recipients)]
    /\ relays' = relays (+) Credits(recipients)
    /\ UNCHANGED supply

Recipients == UNION {[1 .. n -> [to : Addresses, amount : Amounts]] : n \in 0 .. MaxPayments}

Next ==
    \/ \E from, to \in Addresses, amount \in Amounts : Transfer(from, to, amount)
    \/ \E from \in Addresses, recipients \in Recipients : TransferN(from, recipients)
    \/ \E a \in Addresses, value \in Amounts : Mint(a, value)
    \/ RelayCredit

Spec == Init /\ [][Next]_vars
-----------------------------------------------------------------------------

(* What is on its way to address a. *)
Incoming(a) ==
    SumFunction([r \in BagToSet(relays) |-> IF r.to = a THEN r.amount * relays[r] ELSE 0])

(* Tokens are neither created nor lost between the debit and the relayed
   credit, in whatever order credits are delivered. *)
Conservation == SumFunction([a \in Addresses |-> balance[a] + Incoming(a)]) = supply

(* Counting a credit as soon as it is relayed, every transaction is one atomic
   step of a token ledger in which nobody overdraws, and executing a relay
   changes nothing (TokenLedger). *)
Ledger == INSTANCE TokenLedger WITH bal <- [a \in Addresses |-> balance[a] + Incoming(a)]
ImplementsLedger == Ledger!LedgerSpec
=============================================================================
