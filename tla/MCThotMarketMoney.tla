------------------------- MODULE MCThotMarketMoney -------------------------
(***************************************************************************)
(* Two instances of ThotMarket in one run, each an area of its state space *)
(* that MoneyBound keeps the run to.  In "money" the buyer and the         *)
(* treasury buy from s in overlapping sales that are funded at time 1 and  *)
(* run to their end, with discounts and a dispute; s has a referrer and    *)
(* discounts are bound before the first sale, the market is not paused,    *)
(* and the referrer and the operator leave what they are owed.  In         *)
(* "referrals" s, r1 and r2 may refer each other while b buys twice from   *)
(* s, up to time 2, and the sales go no further than their acceptance.     *)
(***************************************************************************)
EXTENDS MCThotMarket

ThreeOffers == {<<b, 1>>, <<b, 2>>, <<vault, 1>>}

BuysFromS(ids) ==
    /\ \A d \in reviewedInputs : d.id \in ids /\ d.seller = s
    /\ \A id \in OfferIds : offers[id].status # "None" => id \in ids /\ offers[id].seller = s

MoneyState ==
    /\ BuysFromS(TwoOffers) /\ ~paused
    /\ Cardinality(reviewedInputs) <= 1
    /\ attributions[s].referrer \in {NoOne, r1}
    /\ \A a \in {r1, r2} : attributions[a].referrer = NoOne /\ rateBps[a] = 0
    /\ \/ attributions[s].referrer = r1 /\ feeDiscounts = policy
       \/ /\ rateBps[b] = 0 /\ rateBps[s] = 0
          /\ \A id \in OfferIds : offers[id].status = "None"

MoneyStep ==
    /\ \A a \in {r1, op} : claimable[a] <= claimable'[a]
    /\ now > 1 =>
          /\ UNCHANGED <<reviews, referral, governance>>
          /\ \A id \in OfferIds : offers[id].status = "None" => offers'[id].status = "None"

ReferralsState ==
    /\ BuysFromS({<<b, 1>>, <<b, 2>>})
    /\ now <= 2 /\ feeDiscounts = NoOne /\ ~paused
    /\ \A a \in Accounts : rateBps[a] = 0
    /\ \A id \in OfferIds : offers[id].status \in {"None", "Offered", "Accepted"}

MoneyBound ==
    \/ MoneyState /\ MoneyState' /\ MoneyStep
    \/ ReferralsState /\ ReferralsState'
=============================================================================
