----------------------------- MODULE TokenLedger -----------------------------
(***************************************************************************)
(* What a token contract promises, whatever the platform: transfers are    *)
(* atomic, nobody spends more than it has, and only minting changes the    *)
(* supply.                                                                 *)
(***************************************************************************)
EXTENDS Integers, Functions

CONSTANTS Addresses, Amounts, MaxPayments

VARIABLES bal, supply

Payments == UNION {[1 .. n -> [to : Addresses, amount : Amounts]] : n \in 0 .. MaxPayments}
Total(payments) == SumFunction([i \in DOMAIN payments |-> payments[i].amount])
PaidTo(payments, a) ==
    SumFunction([i \in DOMAIN payments |-> IF payments[i].to = a THEN payments[i].amount ELSE 0])

LedgerInit ==
    /\ bal \in [Addresses -> Nat]
    /\ supply = SumFunction(bal)

LedgerMint(a, v) ==
    /\ bal' = [bal EXCEPT ![a] = @ + v]
    /\ supply' = supply + v

LedgerPay(from, payments) ==
    /\ Total(payments) <= bal[from]
    /\ bal' = [a \in Addresses |-> (IF a = from THEN bal[a] - Total(payments) ELSE bal[a])
                                   + PaidTo(payments, a)]
    /\ UNCHANGED supply

LedgerNext ==
    \E a \in Addresses :
        \/ \E v \in Amounts : LedgerMint(a, v)
        \/ \E payments \in Payments : LedgerPay(a, payments)

LedgerSpec == LedgerInit /\ [][LedgerNext]_<<bal, supply>>
=============================================================================
