---------------------------- MODULE SaleEscrow ----------------------------
(***************************************************************************)
(* What the market promises the parties to a sale, whatever happens in     *)
(* between: a payment is taken once, and its allocation to seller,         *)
(* referrer and protocol is fixed when it is taken; it then leaves escrow  *)
(* exactly once, as that allocation, as a full refund to the buyer, or -   *)
(* by a ruling - as half a refund and half burned.  Tokens leave the       *)
(* market only burned or to pay what an account is credited.               *)
(***************************************************************************)
EXTENDS Integers

CONSTANTS Accounts, Ids, BuyerOf(_)

VARIABLES sale, credit, vault
vars == <<sale, credit, vault>>

Roles == {"seller", "referrer", "protocol"}
Terms ==
    {t \in [payment : Nat, part : [Roles -> Nat], payee : [Roles -> Accounts]] :
        t.payment = t.part["seller"] + t.part["referrer"] + t.part["protocol"]}

Unfunded == [phase |-> "unfunded"]
InPhase(phase, terms) == [phase |-> phase, terms |-> terms]

Share(t, a) ==
    LET Part(role) == IF t.payee[role] = a THEN t.part[role] ELSE 0
    IN  Part("seller") + Part("referrer") + Part("protocol")

Init ==
    /\ sale = [id \in Ids |-> Unfunded]
    /\ credit = [a \in Accounts |-> 0]
    /\ vault = 0

Fund(id) ==
    LET t == sale'[id].terms IN
    /\ sale[id] = Unfunded /\ sale'[id] # Unfunded
    /\ sale' = [sale EXCEPT ![id] = InPhase("held", t)]
    /\ t \in Terms
    /\ vault' = vault + t.payment
    /\ UNCHANGED credit

Leave(id, phase) ==
    /\ sale[id].phase = "held"
    /\ sale' = [sale EXCEPT ![id] = InPhase(phase, sale[id].terms)]

Pay(id) ==
    /\ Leave(id, "paid")
    /\ credit' = [a \in Accounts |-> credit[a] + Share(sale[id].terms, a)]
    /\ UNCHANGED vault

Refund(id) ==
    /\ Leave(id, "refunded")
    /\ credit' = [credit EXCEPT ![BuyerOf(id)] = @ + sale[id].terms.payment]
    /\ UNCHANGED vault

Split(id) ==
    LET payment == sale[id].terms.payment IN
    /\ Leave(id, "split")
    /\ credit' = [credit EXCEPT ![BuyerOf(id)] = @ + payment \div 2]
    /\ vault' = vault - (payment - payment \div 2)

Withdraw(a) ==
    /\ credit[a] > 0
    /\ credit' = [credit EXCEPT ![a] = 0]
    /\ vault' = vault - credit[a]
    /\ UNCHANGED sale

Next ==
    \/ \E id \in Ids : Fund(id) \/ Pay(id) \/ Refund(id) \/ Split(id)
    \/ \E a \in Accounts : Withdraw(a)

Spec == Init /\ [][Next]_vars
=============================================================================
