--------------------------- MODULE MCThotMarket ---------------------------
(***************************************************************************)
(* Instances of ThotMarket for TLC.  Buyer b, seller s, wallets r1 and r2  *)
(* (reviewers and referrers), the treasury vault, and the operator op,     *)
(* which is also the protocol's recipient.  The tariff charges a direct    *)
(* cost of 10 and a contribution of 30; the largest discount a side may    *)
(* have is then 12 and the referral share is 6.                            *)
(***************************************************************************)
EXTENDS ThotMarket, TLC

CONSTANTS b, s, r1, r2, vault, op, m1, policy

Cheap == [directCost |-> 10, overhead |-> 20]
Dear == [directCost |-> 10, overhead |-> 27]

(* Disputes: one sale by s to b, whose referrer may be the reviewer r1.    *)
DisputeOffers == {<<b, 1>>}

(* Money: the buyer and the treasury buy from s in overlapping sales, and *)
(* s, r1 and r2 may refer each other.                                      *)
TwoOffers == {<<b, 1>>, <<vault, 1>>}

Material == <<"license", m1>>
OneMaterial == {Material}

(* Consent: an authorization that either buyer may use, twice in all, at   *)
(* exactly the share the cheap tariff leaves; another one of b's reusing   *)
(* its nonce for other terms, at exactly the share the dear tariff leaves, *)
(* which expires first; and two sales that the delegate r1 signed under a  *)
(* stream of the seller's that allows one.                                 *)
Sale(buyer, gross, bps, until, nonce, uses) ==
    [seller |-> s, buyer |-> buyer, material |-> Material, gross |-> gross,
     minSellerBps |-> bps, validUntil |-> until, nonce |-> nonce, maxUses |-> uses]

TwiceSale == Sale(NoOne, 100, 6000, 3, "n1", 2)
OtherTerms == Sale(b, 100, 4900, 2, "n1", 1)
StreamSale == Sale(NoOne, 100, 3000, 3, "n2", 1)
NextStreamSale == Sale(vault, 100, 3000, 3, "n3", 1)
ConsentOffers == {<<b, 1>>, <<vault, 1>>, <<vault, 2>>}
AllSales == {TwiceSale, OtherTerms, StreamSale, NextStreamSale}

TheStream ==
    [seller |-> s, delegate |-> r1, license |-> "license", minGross |-> 80,
     minSellerBps |-> 3000, validUntil |-> 3, nonce |-> "k1", maxSales |-> 1]
Streams == {TheStream}
SignaturesGiven ==
    {<<TwiceSale, s>>, <<OtherTerms, s>>, <<StreamSale, r1>>,
     <<NextStreamSale, r1>>, <<TheStream, s>>}

(* Consent is used when a sale is funded and no later, so the sales of    *)
(* this run go no further than their acceptance; quotes are made to b, and *)
(* the treasury uses its ids in order.                                     *)
ConsentBound ==
    /\ \A id \in OfferIds :
          /\ offers[id].status \in {"None", "Offered", "Accepted"}
          /\ offers[id].status = "Offered" => Buyer(id) = b
    /\ offers[<<vault, 1>>].status = "None" => offers[<<vault, 2>>].status = "None"

(* Governance: a dearer tariff, a new operator; or only pausing.         *)
BothTariffs == {Cheap, Dear}
Governed == {TariffOp(Dear), OperatorOp(r1)}
OnlyPause == {Unpause}
=============================================================================
