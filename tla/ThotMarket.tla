---------------------------- MODULE ThotMarket ----------------------------
(***************************************************************************)
(* The escrow contract contracts/src/ThotMarket.sol.  One action is one    *)
(* external call (a transaction is atomic and, through nonReentrant, never *)
(* nested).  A call that reverts is a call whose guard is false.           *)
(*                                                                         *)
(* Abstractions.  An offer id is the pair <<buyer, nonce>> that offerId    *)
(* hashes.  A hash is the record it commits to, or a BOOLEAN where only *)
(* its presence matters.  A material is a <<license, evidence>> pair.      *)
(* buyerSurcharge is always 0 in the code and is left out.  Time is a      *)
(* bounded counter; the windows are constants.                             *)
(*                                                                         *)
(* An operator X_Y just before X is X with a plausible bug; nothing uses   *)
(* it but the sensitivity checks described in the README.                  *)
(***************************************************************************)
EXTENDS Integers, FiniteSets, FiniteSetsExt

CONSTANTS
    Accounts,            \* addresses that take part
    NoOne,               \* address(0)
    AcquisitionVault,    \* the treasury: buys samples, collects its own fees
    ProtocolRecipient,
    InitialOperator,
    Reviewers,           \* governor.getOwners()
    DisputeThreshold,    \* governor.getThreshold(): 1 or 2
    OfferIds,            \* the <<buyer, nonce>> pairs used
    Sellers,             \* accounts that buyers name as seller
    Materials,           \* <<license, evidence>> pairs
    Prices,              \* gross prices
    Tariffs,             \* tariffs governance may adopt
    InitialTariff,
    DiscountPolicies,    \* ThotFeeDiscounts contracts that may be bound
    Rates,               \* discount rates in bps a holder may have
    Referrers,           \* accounts that sellers may name as referrer
    MaxReferralDepth,    \* 64 in the code
    SaleAuthorizations, StreamAuthorizations,
    Signatures,          \* <<digest, signer>>: the signatures that exist
    GovernanceOps,       \* operations the governor may queue
    MinQualifyingSpend,  \* SUBJECTIVE_DISPUTE_MIN_QUALIFYING_SPEND
    GovernanceDelay, QuoteLifetime, DeliveryWindow, DisputeWindow,
    SellerResponseWindow, DisputeVoteWindow,
    ReferralTerm, ReferralActivationWindow,
    ReviewLifetime,      \* how long a signed review may stay valid
    MaxReviews,          \* bound on the reviews outstanding at once
    MaxTime,             \* bound on the clock
    LastFunding          \* bound: no offer is created after this time

Windows == {QuoteLifetime, DeliveryWindow, DisputeWindow, SellerResponseWindow,
            DisputeVoteWindow, ReferralTerm, ReferralActivationWindow}

ASSUME AccountsAssumption ==
    /\ NoOne \notin Accounts
    /\ {AcquisitionVault, ProtocolRecipient, InitialOperator} \subseteq Accounts
    /\ Reviewers \subseteq Accounts /\ IsFiniteSet(Reviewers)
    /\ Sellers \subseteq Accounts
    /\ Referrers \subseteq Accounts \ {AcquisitionVault}
    /\ NoOne \notin DiscountPolicies
    /\ \A id \in OfferIds : id[1] \in Accounts

ASSUME ConsentAssumption ==
    /\ \A a \in SaleAuthorizations :
          /\ a.seller \in Accounts /\ a.material \in Materials /\ a.gross \in Prices
          /\ a.minSellerBps \in Nat /\ a.maxUses \in Nat
    /\ \A s \in StreamAuthorizations : s.maxSales \in Nat
    /\ NoOne \notin SaleAuthorizations \cup StreamAuthorizations

ASSUME WindowsAssumption ==
    /\ \A w \in Windows : w \in Nat /\ w > 0
    /\ MaxTime \in Nat /\ LastFunding \in Nat /\ MaxReferralDepth \in Nat
    /\ GovernanceDelay \in Nat
    /\ DisputeThreshold \in {1, 2}
    /\ DisputeThreshold = 1 => GovernanceDelay = 0

ASSUME PricesAssumption ==
    /\ Prices \subseteq Nat \ {0}
    /\ Tariffs \subseteq [directCost : Nat, overhead : Nat]
    /\ InitialTariff \in [directCost : Nat, overhead : Nat]
    /\ Rates \subseteq Nat /\ 0 \in Rates
    /\ \A rate \in Rates : rate <= 3500
    /\ MinQualifyingSpend \in Nat

VARIABLES
    now,
    offers, disputeCases,
    escrowLiability, claimLiability, claimable,
    balance,                   \* token.balanceOf(market)
    finalizedIndependentSpend,
    attributions, firstExternalOrderAt, hasAcceptedSale,
    reviewedInputs,            \* digests approved on chain by the operator
    signedReviews,             \* ReviewAuthorizations the operator has signed
    authorizationUses, authorizationRevoked, authorizationDigests,
    streamUses, streamDigests,
    tariff, feeDiscounts, rateBps,
    operator, paused, queued

money == <<escrowLiability, claimLiability, claimable, balance,
           finalizedIndependentSpend>>
sales == <<offers, disputeCases>>
referral == <<attributions, firstExternalOrderAt, hasAcceptedSale>>
reviews == <<reviewedInputs, signedReviews>>
consent == <<authorizationUses, authorizationRevoked, authorizationDigests,
             streamUses, streamDigests>>
governance == <<tariff, feeDiscounts, rateBps, operator, paused, queued>>
context == <<referral, reviews, consent, governance>>
vars == <<now, sales, money, context>>

Statuses == {"None", "Offered", "Accepted", "Delivered", "Disputed",
             "Finalized", "Refunded"}
Live == {"Offered", "Accepted", "Delivered", "Disputed"}
Decisions == {"None", "Uphold", "BuyerWins"}
Buyer(id) == id[1]

-----------------------------------------------------------------------------
(* Economics: pure functions of the tariff and of the gross price.         *)

MulBps(value, bps) == (value * bps) \div 10000
MulBpsUp(value, bps) ==
    MulBps(value, bps) + (IF (value * bps) % 10000 = 0 THEN 0 ELSE 1)

NetContribution(t) == t.overhead + t.overhead \div 2 + (t.overhead % 2)
ServiceFee(t) == t.directCost + NetContribution(t)

(* ThotFeeDiscounts.discount: each side is capped at half of what remains  *)
(* of the contribution after the largest referral.                         *)
DiscountCeiling(contribution) == (contribution - contribution \div 5) \div 2
Discount(rate, fee, contribution) ==
    IF MulBps(fee, rate) > DiscountCeiling(contribution)
    THEN DiscountCeiling(contribution)
    ELSE MulBps(fee, rate)

HolderDiscount(buyer, holder) ==
    IF buyer = AcquisitionVault \/ feeDiscounts = NoOne THEN 0
    ELSE Discount(rateBps[holder], ServiceFee(tariff), NetContribution(tariff))

ReferralShare(t) == MulBps(NetContribution(t), 2000)

-----------------------------------------------------------------------------
(* Offers.                                                                 *)

NoOffer ==
    [status |-> "None", seller |-> NoOne, referrer |-> NoOne, gross |-> 0,
     sellerAmount |-> 0, referralAmount |-> 0, buyerDiscount |-> 0,
     material |-> NoOne, treasury |-> FALSE, independent |-> FALSE,
     issuedAt |-> 0, acceptedAt |-> 0, deliveredAt |-> 0]

NoCase ==
    [openedAt |-> 0, voteStartsAt |-> 0, voteEndsAt |-> 0, responded |-> FALSE,
     upholdVotes |-> 0, buyerVotes |-> 0, outcome |-> "None",
     votes |-> [r \in Reviewers |-> "None"]]

Total(o) == o.gross - o.buyerDiscount
ProtocolFee(o) == o.gross - o.sellerAmount - o.referralAmount - o.buyerDiscount

InputDigest_NoTariff(id, seller, material, gross) ==
    [id |-> id, seller |-> seller, material |-> material, gross |-> gross,
     attribution |-> attributions[seller], tariff |-> InitialTariff,
     feeDiscounts |-> feeDiscounts,
     buyerDiscount |-> HolderDiscount(Buyer(id), Buyer(id)),
     sellerDiscount |-> HolderDiscount(Buyer(id), seller)]
InputDigest(id, seller, material, gross) ==
    [id |-> id, seller |-> seller, material |-> material, gross |-> gross,
     attribution |-> attributions[seller], tariff |-> tariff,
     feeDiscounts |-> feeDiscounts,
     buyerDiscount |-> HolderDiscount(Buyer(id), Buyer(id)),
     sellerDiscount |-> HolderDiscount(Buyer(id), seller)]

(* The referral clock: an attribution must see its first reviewed external *)
(* order within the activation window, and then pays for one term.         *)
ReferralEligible(id, seller, reviewed) ==
    /\ reviewed
    /\ Buyer(id) # AcquisitionVault
    /\ attributions[seller].referrer \notin {NoOne, Buyer(id)}

ReferralActivates(id, seller, reviewed) ==
    /\ ReferralEligible(id, seller, reviewed)
    /\ firstExternalOrderAt[seller] = 0
    /\ now < attributions[seller].acceptedAt + ReferralActivationWindow

ReferralStart(id, seller, reviewed) ==
    IF ReferralActivates(id, seller, reviewed)
    THEN now ELSE firstExternalOrderAt[seller]

ReferralPays_Forever(id, seller, reviewed) ==
    /\ ReferralEligible(id, seller, reviewed)
    /\ ReferralStart(id, seller, reviewed) # 0
ReferralPays(id, seller, reviewed) ==
    /\ ReferralEligible(id, seller, reviewed)
    /\ ReferralStart(id, seller, reviewed) # 0
    /\ now < ReferralStart(id, seller, reviewed) + ReferralTerm

FundedOffer(id, seller, material, gross, reviewed) ==
    LET pays == ReferralPays(id, seller, reviewed) IN
    [NoOffer EXCEPT
        !.status = "Offered",
        !.seller = seller,
        !.referrer = IF pays THEN attributions[seller].referrer ELSE NoOne,
        !.gross = gross,
        !.sellerAmount = gross - ServiceFee(tariff)
                         + HolderDiscount(Buyer(id), seller),
        !.referralAmount = IF pays THEN ReferralShare(tariff) ELSE 0,
        !.buyerDiscount = HolderDiscount(Buyer(id), Buyer(id)),
        !.material = material,
        !.treasury = (Buyer(id) = AcquisitionVault),
        !.independent = (Buyer(id) # AcquisitionVault /\ reviewed),
        !.issuedAt = now]

(* _createOffer, with the offer it stores: o is FundedOffer, accepted at   *)
(* once when a sale authorization funds it.                                *)
_createOffer(id, seller, gross, maxPayment, reviewed, o) ==
    /\ ~paused
    /\ now <= LastFunding
    /\ offers[id].status = "None"
    /\ seller # Buyer(id)
    /\ gross >= ServiceFee(tariff)
    /\ Total(o) <= maxPayment
    /\ Total(o) >= o.sellerAmount + o.referralAmount + tariff.directCost
    /\ offers' = [offers EXCEPT ![id] = o]
    /\ firstExternalOrderAt' =
         [firstExternalOrderAt EXCEPT ![seller] =
             IF ReferralActivates(id, seller, reviewed) THEN now ELSE @]
    /\ escrowLiability' = escrowLiability + Total(o)
    /\ balance' = balance + Total(o)
    /\ UNCHANGED <<now, disputeCases, claimLiability, claimable,
                   finalizedIndependentSpend, attributions, reviews,
                   governance>>

createOffer(id, seller, material, gross, maxPayment) ==
    LET reviewed == InputDigest(id, seller, material, gross) \in reviewedInputs
        o == FundedOffer(id, seller, material, gross, reviewed)
    IN  /\ _createOffer(id, seller, gross, maxPayment, reviewed, o)
        /\ UNCHANGED <<hasAcceptedSale, consent>>

-----------------------------------------------------------------------------
(* Contribution-time consent: single-sale authorizations, and streams under *)
(* which a delegate signs single-sale authorizations for the seller.       *)

SaleKeys == {<<a.seller, a.nonce>> : a \in SaleAuthorizations}
StreamKeys == {<<s.seller, s.nonce>> : s \in StreamAuthorizations}
SaleKey(a) == <<a.seller, a.nonce>>

(* The signature argument is either the seller's, or a stream's with the   *)
(* seller's signature on the stream and the delegate's on the sale.        *)
SellerSigned(a) ==
    /\ <<a, a.seller>> \in Signatures
    /\ UNCHANGED <<streamUses, streamDigests>>

StreamSigned(a, s) ==
    /\ s.seller = a.seller
    /\ s.delegate # NoOne
    /\ s.license = a.material[1]
    /\ a.gross >= s.minGross /\ s.minGross > 0
    /\ a.minSellerBps >= s.minSellerBps /\ s.minSellerBps >= 3000
    /\ a.validUntil <= s.validUntil /\ now < s.validUntil
    /\ s.maxSales > 0 /\ s.maxSales <= 10000
    /\ a.maxUses = 1
    /\ ~authorizationRevoked[SaleKey(s)]
    /\ streamUses[SaleKey(s)] < s.maxSales
    /\ streamDigests[SaleKey(s)] \in {NoOne, s}
    /\ <<s, s.seller>> \in Signatures
    /\ <<a, s.delegate>> \in Signatures
    /\ streamDigests' = [streamDigests EXCEPT ![SaleKey(s)] = s]
    /\ streamUses' = [streamUses EXCEPT ![SaleKey(s)] = @ + 1]

Available_Revoked(a) == authorizationUses[SaleKey(a)] < a.maxUses
Available(a) ==
    /\ ~authorizationRevoked[SaleKey(a)]
    /\ authorizationUses[SaleKey(a)] < a.maxUses

_useSaleAuthorization(id, a) ==
    /\ a.buyer \in {NoOne, Buyer(id)}
    /\ now < a.validUntil
    /\ a.minSellerBps <= 10000
    /\ a.maxUses > 0
    /\ Available(a)
    /\ authorizationDigests[SaleKey(a)] \in {NoOne, a}
    /\ \/ SellerSigned(a)
       \/ \E s \in StreamAuthorizations : StreamSigned(a, s)
    /\ authorizationDigests' = [authorizationDigests EXCEPT ![SaleKey(a)] = a]
    /\ authorizationUses' = [authorizationUses EXCEPT ![SaleKey(a)] = @ + 1]
    /\ UNCHANGED authorizationRevoked

_createAuthorizedOffer(id, a, maxPayment, reviewed) ==
    LET o == [FundedOffer(id, a.seller, a.material, a.gross, reviewed)
                 EXCEPT !.status = "Accepted", !.acceptedAt = now]
    IN  /\ _useSaleAuthorization(id, a)
        /\ _createOffer(id, a.seller, a.gross, maxPayment, reviewed, o)
        /\ o.sellerAmount >= MulBpsUp(o.gross, a.minSellerBps)
        /\ hasAcceptedSale' = [hasAcceptedSale EXCEPT ![a.seller] = TRUE]

createAuthorizedOffer(id, a, maxPayment) ==
    LET reviewed == InputDigest(id, a.seller, a.material, a.gross) \in reviewedInputs
    IN  /\ Buyer(id) = AcquisitionVault \/ reviewed
        /\ _createAuthorizedOffer(id, a, maxPayment, reviewed)

createReviewedAuthorizedOffer(id, a, maxPayment, review) ==
    /\ Buyer(id) # AcquisitionVault
    /\ now < review.validUntil
    /\ review.inputDigest = InputDigest(id, a.seller, a.material, a.gross)
    /\ review.signer = operator
    /\ _createAuthorizedOffer(id, a, maxPayment, TRUE)

revokeSaleAuthorization(key) ==
    /\ authorizationRevoked' = [authorizationRevoked EXCEPT ![key] = TRUE]
    /\ UNCHANGED <<now, sales, money, referral, reviews, governance,
                   authorizationUses, authorizationDigests, streamUses,
                   streamDigests>>

-----------------------------------------------------------------------------
(* Reviews.                                                                *)

reviewOffer(id, seller, material, gross, approved) ==
    LET digest == InputDigest(id, seller, material, gross) IN
    /\ gross >= ServiceFee(tariff)
    /\ reviewedInputs' = IF approved THEN reviewedInputs \cup {digest}
                         ELSE reviewedInputs \ {digest}
    /\ UNCHANGED <<now, sales, money, referral, consent, governance,
                   signedReviews>>

(* Off chain: the operator signs the review of the current inputs, valid   *)
(* for a bounded time.                                                     *)
signIndependentReview(id, seller, material, gross, validUntil) ==
    /\ gross >= ServiceFee(tariff)
    /\ Buyer(id) # AcquisitionVault
    /\ now < validUntil
    /\ signedReviews' = signedReviews \cup
         {[inputDigest |-> InputDigest(id, seller, material, gross),
           validUntil |-> validUntil, signer |-> operator]}
    /\ UNCHANGED <<now, sales, money, referral, consent, governance,
                   reviewedInputs>>

-----------------------------------------------------------------------------
(* The life of a funded offer.                                             *)

(* The seller consents to quoteDigest, the terms stored at funding; an id  *)
(* is funded once, so consent to another digest never reaches a sale.      *)
acceptOffer(id) ==
    LET o == offers[id] IN
    /\ o.status = "Offered"
    /\ now <= o.issuedAt + QuoteLifetime
    /\ offers' = [offers EXCEPT ![id].status = "Accepted",
                                ![id].acceptedAt = now]
    /\ hasAcceptedSale' = [hasAcceptedSale EXCEPT ![o.seller] = TRUE]
    /\ UNCHANGED <<now, disputeCases, money, attributions,
                   firstExternalOrderAt, reviews, consent, governance>>

markDelivered(id) ==
    /\ offers[id].status = "Accepted"
    /\ now <= offers[id].acceptedAt + DeliveryWindow
    /\ offers' = [offers EXCEPT ![id].status = "Delivered",
                                ![id].deliveredAt = now]
    /\ UNCHANGED <<now, disputeCases, money, context>>

MayDispute_Again(id) ==
    LET o == offers[id] IN
    /\ o.status = "Delivered" /\ now < o.deliveredAt + DisputeWindow
    /\ o.independent /\ ~o.treasury
MayDispute(id) ==
    LET o == offers[id] IN
    /\ o.status = "Delivered"
    /\ now < o.deliveredAt + DisputeWindow
    /\ o.independent /\ ~o.treasury
    /\ finalizedIndependentSpend[Buyer(id)] + Total(o) >= MinQualifyingSpend
    /\ disputeCases[id].openedAt = 0

dispute(id) ==
    /\ MayDispute(id)
    /\ disputeCases' = [disputeCases EXCEPT ![id] =
         [NoCase EXCEPT
            !.openedAt = now,
            !.voteStartsAt = now + SellerResponseWindow,
            !.voteEndsAt = now + SellerResponseWindow + DisputeVoteWindow]]
    /\ offers' = [offers EXCEPT ![id].status = "Disputed"]
    /\ UNCHANGED <<now, money, context>>

respondToDispute(id) ==
    /\ offers[id].status = "Disputed"
    /\ now < disputeCases[id].voteStartsAt
    /\ ~disputeCases[id].responded
    /\ disputeCases' = [disputeCases EXCEPT ![id].responded = TRUE]
    /\ UNCHANGED <<now, offers, money, context>>

MayWaive_Unheard(id) ==
    offers[id].status = "Disputed" /\ now < disputeCases[id].voteStartsAt
MayWaive(id) ==
    /\ offers[id].status = "Disputed"
    /\ disputeCases[id].outcome = "None"
    /\ disputeCases[id].responded
    /\ now < disputeCases[id].voteStartsAt

waiveDisputeResponseWindow(id) ==
    /\ MayWaive(id)
    /\ disputeCases' = [disputeCases EXCEPT
                           ![id].voteStartsAt = now,
                           ![id].voteEndsAt = now + DisputeVoteWindow]
    /\ UNCHANGED <<now, offers, money, context>>

(* Every release of escrow is checked arithmetic: it reverts on underflow. *)
ReleaseEscrow_AllClaimed(id, claims) ==
    /\ escrowLiability >= Total(offers[id])
    /\ escrowLiability' = escrowLiability - Total(offers[id])
    /\ claimLiability' = claimLiability + Total(offers[id])
ReleaseEscrow_Paused(id, claims) ==
    /\ ~paused
    /\ escrowLiability' = escrowLiability - Total(offers[id])
    /\ claimLiability' = claimLiability + claims
ReleaseEscrow(id, claims) ==
    /\ escrowLiability >= Total(offers[id])
    /\ escrowLiability' = escrowLiability - Total(offers[id])
    /\ claimLiability' = claimLiability + claims

_refund(id) ==
    /\ offers' = [offers EXCEPT ![id].status = "Refunded"]
    /\ ReleaseEscrow(id, Total(offers[id]))
    /\ claimable' = [claimable EXCEPT ![Buyer(id)] = @ + Total(offers[id])]
    /\ UNCHANGED <<now, disputeCases, balance, finalizedIndependentSpend,
                   context>>

_adjudicateUphold(id, c) ==
    /\ disputeCases' = [disputeCases EXCEPT ![id] = [c EXCEPT !.outcome = "Uphold"]]
    /\ offers' = [offers EXCEPT ![id].status = "Delivered"]
    /\ UNCHANGED money

(* Half of the payment is refunded; the rest is burned.                    *)
_adjudicateBuyerWin(id, c) ==
    LET refund == Total(offers[id]) \div 2
        burned == Total(offers[id]) - refund
    IN  /\ disputeCases' = [disputeCases EXCEPT ![id] = [c EXCEPT !.outcome = "BuyerWins"]]
        /\ offers' = [offers EXCEPT ![id].status = "Refunded"]
        /\ ReleaseEscrow(id, refund)
        /\ claimable' = [claimable EXCEPT ![Buyer(id)] = @ + refund]
        /\ balance >= burned
        /\ balance' = balance - burned
        /\ UNCHANGED finalizedIndependentSpend

Quorum_One(votes) == votes >= 1
Quorum(votes) == votes >= DisputeThreshold

voteDispute(id, r, decision) ==
    LET o == offers[id]
        old == disputeCases[id]
        c == [old EXCEPT !.votes[r] = decision,
                !.buyerVotes = IF decision = "BuyerWins" THEN @ + 1 ELSE @,
                !.upholdVotes = IF decision = "Uphold" THEN @ + 1 ELSE @]
    IN  /\ o.status = "Disputed"
        /\ old.outcome = "None"
        /\ r \notin {Buyer(id), o.seller, o.referrer}
        /\ old.voteStartsAt <= now /\ now < old.voteEndsAt
        /\ old.votes[r] = "None"
        /\ \/ Quorum(c.buyerVotes) /\ _adjudicateBuyerWin(id, c)
           \/ /\ ~Quorum(c.buyerVotes) /\ Quorum(c.upholdVotes)
              /\ _adjudicateUphold(id, c)
           \/ /\ ~Quorum(c.buyerVotes) /\ ~Quorum(c.upholdVotes)
              /\ disputeCases' = [disputeCases EXCEPT ![id] = c]
              /\ UNCHANGED <<offers, money>>
        /\ UNCHANGED <<now, context>>

finalizeExpiredDispute(id) ==
    /\ offers[id].status = "Disputed"
    /\ disputeCases[id].outcome = "None"
    /\ now >= disputeCases[id].voteEndsAt
    /\ _adjudicateUphold(id, disputeCases[id])
    /\ UNCHANGED <<now, context>>

(* What account a is owed when o is finalized: roles may coincide.         *)
Share_NoTreasury(o, a) ==
    (IF a = o.seller THEN o.sellerAmount ELSE 0)
    + (IF a = o.referrer THEN o.referralAmount ELSE 0)
    + (IF a = ProtocolRecipient THEN ProtocolFee(o) ELSE 0)
Share(o, a) ==
    (IF a = o.seller THEN o.sellerAmount ELSE 0)
    + (IF a = o.referrer THEN o.referralAmount ELSE 0)
    + (IF a = (IF o.treasury THEN AcquisitionVault ELSE ProtocolRecipient)
       THEN ProtocolFee(o) ELSE 0)

finalize(id) ==
    LET o == offers[id] IN
    /\ o.status = "Delivered"
    /\ now >= o.deliveredAt + DisputeWindow
    /\ ProtocolFee(o) >= 0
    /\ offers' = [offers EXCEPT ![id].status = "Finalized"]
    /\ ReleaseEscrow(id, Total(o))
    /\ claimable' = [a \in Accounts |-> claimable[a] + Share(o, a)]
    /\ finalizedIndependentSpend' =
         [finalizedIndependentSpend EXCEPT ![Buyer(id)] =
             IF o.independent /\ ~o.treasury THEN @ + Total(o) ELSE @]
    /\ UNCHANGED <<now, disputeCases, balance, context>>

refundExpired(id) ==
    /\ offers[id].status = "Offered"
    /\ now > offers[id].issuedAt + QuoteLifetime
    /\ _refund(id)

cancelOffer(id) ==
    /\ offers[id].status = "Offered"
    /\ _refund(id)

refundUndelivered(id) ==
    /\ offers[id].status = "Accepted"
    /\ now > offers[id].acceptedAt + DeliveryWindow
    /\ _refund(id)

(* claim and claimFor: whoever calls, the beneficiary is paid.             *)
_claim(a) ==
    /\ claimable[a] > 0
    /\ claimLiability >= claimable[a]
    /\ balance >= claimable[a]
    /\ claimable' = [claimable EXCEPT ![a] = 0]
    /\ claimLiability' = claimLiability - claimable[a]
    /\ balance' = balance - claimable[a]
    /\ UNCHANGED <<now, sales, escrowLiability, finalizedIndependentSpend,
                   context>>

-----------------------------------------------------------------------------
(* Referrals.                                                              *)

(* The ancestors the bounded walk visits, from the proposed referrer up.   *)
Ancestors_One(referrer) ==
    [i \in 0 .. MaxReferralDepth |-> IF i = 0 THEN referrer ELSE NoOne]
Ancestors(referrer) ==
    LET up[i \in 0 .. MaxReferralDepth] ==
          IF i = 0 THEN referrer
          ELSE IF up[i - 1] = NoOne THEN NoOne
          ELSE attributions[up[i - 1]].referrer
    IN up

Attributable(a) == ~hasAcceptedSale[a] /\ attributions[a].referrer = NoOne

registerReferrer(a, referrer) ==
    /\ Attributable(a)
    /\ referrer \notin {a, AcquisitionVault}
    /\ \A i \in 0 .. MaxReferralDepth : Ancestors(referrer)[i] # a
    /\ Ancestors(referrer)[MaxReferralDepth] = NoOne
    /\ attributions' = [attributions EXCEPT ![a] =
                          [referrer |-> referrer, acceptedAt |-> now]]
    /\ UNCHANGED <<now, sales, money, firstExternalOrderAt, hasAcceptedSale,
                   reviews, consent, governance>>

-----------------------------------------------------------------------------
(* Governance: pausing is immediate, everything else waits in the queue    *)
(* and, once executable, never expires.                                    *)

Unpause == [kind |-> "unpause"]
OperatorOp(next) == [kind |-> "operator", next |-> next]
TariffOp(t) == [kind |-> "tariff", tariff |-> t]

_queue(op) == queued' = [queued EXCEPT ![op] = now + GovernanceDelay]

_consume(op) ==
    /\ op \in GovernanceOps
    /\ queued[op] > 0
    /\ now >= queued[op]
    /\ queued' = [queued EXCEPT ![op] = 0]

queueGovernance(op) ==
    /\ _queue(op)
    /\ UNCHANGED <<now, sales, money, referral, reviews, consent, tariff,
                   feeDiscounts, rateBps, operator, paused>>

cancelGovernance(op) ==
    /\ queued' = [queued EXCEPT ![op] = 0]
    /\ UNCHANGED <<now, sales, money, referral, reviews, consent, tariff,
                   feeDiscounts, rateBps, operator, paused>>

executeOperator(next) ==
    /\ _consume(OperatorOp(next))
    /\ operator' = next
    /\ UNCHANGED <<now, sales, money, referral, reviews, consent, tariff,
                   feeDiscounts, rateBps, paused>>

executeTariff(t) ==
    /\ _consume(TariffOp(t))
    /\ tariff' = t
    /\ UNCHANGED <<now, sales, money, referral, reviews, consent, feeDiscounts,
                   rateBps, operator, paused>>

(* An instance whose governor never unpauses does not pause either.        *)
pause ==
    /\ Unpause \in GovernanceOps
    /\ paused' = TRUE
    /\ UNCHANGED <<now, sales, money, referral, reviews, consent, tariff,
                   feeDiscounts, rateBps, operator, queued>>

unpause ==
    /\ _consume(Unpause)
    /\ paused' = FALSE
    /\ UNCHANGED <<now, sales, money, referral, reviews, consent, tariff,
                   feeDiscounts, rateBps, operator>>

bindFeeDiscounts(policy) ==
    /\ feeDiscounts = NoOne
    /\ feeDiscounts' = policy
    /\ UNCHANGED <<now, sales, money, referral, reviews, consent, tariff,
                   rateBps, operator, paused, queued>>

-----------------------------------------------------------------------------
(* The environment: holdings move a discount rate, and time passes.        *)

holdingsChange(a, rate) ==
    /\ rate # rateBps[a]
    /\ rateBps' = [rateBps EXCEPT ![a] = rate]
    /\ UNCHANGED <<now, sales, money, referral, reviews, consent, tariff,
                   feeDiscounts, operator, paused, queued>>

Tick ==
    /\ now < MaxTime
    /\ now' = now + 1
    /\ UNCHANGED <<sales, money, context>>

Init ==
    /\ now = 1
    /\ offers = [id \in OfferIds |-> NoOffer]
    /\ disputeCases = [id \in OfferIds |-> NoCase]
    /\ escrowLiability = 0 /\ claimLiability = 0 /\ balance = 0
    /\ claimable = [a \in Accounts |-> 0]
    /\ finalizedIndependentSpend = [a \in Accounts |-> 0]
    /\ attributions = [a \in Accounts |-> [referrer |-> NoOne, acceptedAt |-> 0]]
    /\ firstExternalOrderAt = [a \in Accounts |-> 0]
    /\ hasAcceptedSale = [a \in Accounts |-> FALSE]
    /\ reviewedInputs = {} /\ signedReviews = {}
    /\ authorizationUses = [k \in SaleKeys |-> 0]
    /\ authorizationDigests = [k \in SaleKeys |-> NoOne]
    /\ authorizationRevoked = [k \in SaleKeys \cup StreamKeys |-> FALSE]
    /\ streamUses = [k \in StreamKeys |-> 0]
    /\ streamDigests = [k \in StreamKeys |-> NoOne]
    /\ tariff = InitialTariff
    /\ feeDiscounts = NoOne
    /\ rateBps = [a \in Accounts |-> 0]
    /\ operator = InitialOperator
    /\ paused = FALSE
    /\ queued = [op \in GovernanceOps |-> 0]

Funding ==
    \E id \in OfferIds, maxPayment \in Prices :
        \/ \E s \in Sellers, m \in Materials, g \in Prices :
              createOffer(id, s, m, g, maxPayment)
        \/ \E a \in SaleAuthorizations : createAuthorizedOffer(id, a, maxPayment)
        \/ \E a \in SaleAuthorizations, v \in signedReviews :
              createReviewedAuthorizedOffer(id, a, maxPayment, v)

(* Bounds: reviews, consent and holdings matter only to a funding, so they *)
(* change only while a funding may still follow; and reviews are few.      *)
MayReview == Cardinality(reviewedInputs) + Cardinality(signedReviews) < MaxReviews
MayStillFund(id) == offers[id].status = "None" /\ now <= LastFunding

Reviewing ==
    \E id \in {i \in OfferIds : MayStillFund(i)} :
        \/ \E s \in Sellers, m \in Materials, g \in Prices, approved \in BOOLEAN :
              (approved => MayReview) /\ reviewOffer(id, s, m, g, approved)
        \/ MayReview /\ \E a \in SaleAuthorizations, v \in now + 1 .. now + ReviewLifetime :
              signIndependentReview(id, a.seller, a.material, a.gross, v)

Settlement ==
    \/ \E id \in OfferIds :
          \/ acceptOffer(id) \/ markDelivered(id) \/ finalize(id)
          \/ refundExpired(id) \/ cancelOffer(id) \/ refundUndelivered(id)
    \/ \E a \in Accounts : _claim(a)

Disputes ==
    \E id \in OfferIds :
        \/ dispute(id) \/ respondToDispute(id) \/ waiveDisputeResponseWindow(id)
        \/ \E r \in Reviewers, d \in {"Uphold", "BuyerWins"} : voteDispute(id, r, d)
        \/ finalizeExpiredDispute(id)

Consenting ==
    /\ \E id \in OfferIds : MayStillFund(id)
    /\ \/ \E key \in SaleKeys \cup StreamKeys : revokeSaleAuthorization(key)
       \/ \E a \in Sellers, r \in Referrers : registerReferrer(a, r)

Governing ==
    \/ \E op \in GovernanceOps : queueGovernance(op) \/ cancelGovernance(op)
    \/ \E a \in Accounts : executeOperator(a)
    \/ \E t \in Tariffs : executeTariff(t)
    \/ pause \/ unpause
    \/ \E p \in DiscountPolicies : bindFeeDiscounts(p)

Environment ==
    \/ /\ \E id \in OfferIds : MayStillFund(id)
       /\ \E a \in (Sellers \cup {Buyer(id) : id \in OfferIds}) \ {AcquisitionVault},
            rate \in Rates :
            holdingsChange(a, rate)
    \/ Tick

Next == Funding \/ Reviewing \/ Settlement \/ Disputes \/ Consenting
        \/ Governing \/ Environment

Spec == Init /\ [][Next]_vars

(* Anyone may settle what is overdue, and the sale worker retries it every *)
(* cycle (processSalesCycle): these calls are not withheld for ever.       *)
Fairness ==
    /\ WF_vars(Tick)
    /\ \A id \in OfferIds :
          /\ WF_vars(refundExpired(id)) /\ WF_vars(refundUndelivered(id))
          /\ WF_vars(finalize(id)) /\ WF_vars(finalizeExpiredDispute(id))
    /\ \A a \in Accounts : WF_vars(_claim(a))

FairSpec == Spec /\ Fairness

-----------------------------------------------------------------------------
(* Type invariant.                                                         *)

OfferType ==
    [status : Statuses, seller : Accounts \cup {NoOne},
     referrer : Accounts \cup {NoOne}, gross : Nat, sellerAmount : Nat,
     referralAmount : Nat, buyerDiscount : Nat, material : Materials \cup {NoOne},
     treasury : BOOLEAN, independent : BOOLEAN,
     issuedAt : Nat, acceptedAt : Nat, deliveredAt : Nat]

CaseType ==
    [openedAt : Nat, voteStartsAt : Nat, voteEndsAt : Nat,
     responded : BOOLEAN, upholdVotes : Nat, buyerVotes : Nat,
     outcome : Decisions, votes : [Reviewers -> Decisions]]

SalesTyped ==
    /\ offers \in [OfferIds -> OfferType]
    /\ disputeCases \in [OfferIds -> CaseType]

MoneyTyped ==
    /\ escrowLiability \in Nat /\ claimLiability \in Nat /\ balance \in Nat
    /\ claimable \in [Accounts -> Nat]
    /\ finalizedIndependentSpend \in [Accounts -> Nat]

ReferralTyped ==
    /\ attributions \in
         [Accounts -> [referrer : Accounts \cup {NoOne}, acceptedAt : Nat]]
    /\ firstExternalOrderAt \in [Accounts -> Nat]
    /\ hasAcceptedSale \in [Accounts -> BOOLEAN]

ConsentTyped ==
    /\ authorizationUses \in [SaleKeys -> Nat]
    /\ authorizationDigests \in [SaleKeys -> SaleAuthorizations \cup {NoOne}]
    /\ authorizationRevoked \in [SaleKeys \cup StreamKeys -> BOOLEAN]
    /\ streamUses \in [StreamKeys -> Nat]
    /\ streamDigests \in [StreamKeys -> StreamAuthorizations \cup {NoOne}]

GovernanceTyped ==
    /\ tariff \in Tariffs \cup {InitialTariff}
    /\ feeDiscounts \in DiscountPolicies \cup {NoOne}
    /\ rateBps \in [Accounts -> Rates]
    /\ operator \in Accounts
    /\ paused \in BOOLEAN
    /\ queued \in [GovernanceOps -> Nat]

(* Every variable keeps the type its Solidity declaration gives it, and no *)
(* amount is ever negative.                                                *)
TypeOK ==
    /\ now \in Nat /\ now >= 1
    /\ SalesTyped /\ MoneyTyped /\ ReferralTyped /\ ConsentTyped
    /\ GovernanceTyped

-----------------------------------------------------------------------------
(* Money.                                                                  *)

(* A funded payment covers its seller's and its referrer's share, whatever *)
(* discounts both parties had when it was funded.                          *)
OffersAddUp ==
    \A id \in OfferIds : ProtocolFee(offers[id]) >= 0 /\ Total(offers[id]) >= 0

Held(id) == IF offers[id].status \in Live THEN Total(offers[id]) ELSE 0

(* The market holds exactly the tokens it owes: open escrow plus unclaimed *)
(* payouts, whatever was refunded, burned, finalized or claimed in between *)
(* (escrowLiability and claimLiability against balanceOf).                 *)
Solvent == balance = escrowLiability + claimLiability

-----------------------------------------------------------------------------
(* Disputes.                                                               *)

CaseMatches(id) ==
    LET c == disputeCases[id] o == offers[id] IN
    /\ o.status = "Disputed" => c.openedAt # 0 /\ c.outcome = "None"
    /\ c.outcome = "BuyerWins" => o.status = "Refunded"
    /\ c.outcome = "Uphold" => o.status \in {"Delivered", "Finalized"}
    /\ c.outcome # "None" => c.openedAt # 0
    /\ c.openedAt # 0 => /\ o.independent /\ ~o.treasury
                         /\ c.outcome = "None" => o.status = "Disputed"

(* A dispute is open exactly while its case has no outcome; a buyer's win  *)
(* refunds, an upheld delivery can only be finalized, and only independent *)
(* sales were ever disputed.                                               *)
CaseMatchesOffer == \A id \in OfferIds : CaseMatches(id)

Heard(id) ==
    LET c == disputeCases[id] o == offers[id] IN
    c.openedAt # 0 =>
        /\ c.voteStartsAt < c.openedAt + SellerResponseWindow => c.responded
        /\ c.voteEndsAt = c.voteStartsAt + DisputeVoteWindow
        /\ \A r \in Reviewers : c.votes[r] # "None" =>
              /\ now >= c.voteStartsAt
              /\ r \notin {Buyer(id), o.seller, o.referrer}

(* No vote is counted before the seller either had the whole response      *)
(* window or answered and gave the rest of it up; the vote window is never *)
(* cut short, and no party to the sale votes.                              *)
SellerIsHeard == \A id \in OfferIds : Heard(id)

Votes(c, d) == Cardinality({r \in Reviewers : c.votes[r] = d})

Tallied(c, t) ==
    /\ c.buyerVotes = Votes(c, "BuyerWins")
    /\ c.upholdVotes = Votes(c, "Uphold")
    /\ c.outcome = "BuyerWins" <=> c.buyerVotes >= DisputeThreshold
    /\ c.outcome = "Uphold" =>
          c.upholdVotes >= DisputeThreshold \/ t >= c.voteEndsAt

(* The tallies are the votes cast; an outcome is the quorum's, or the      *)
(* default to uphold once the vote window has closed without one, and the  *)
(* sale always agrees with it.                                             *)
OutcomeIsTheQuorums ==
    CaseMatchesOffer /\ \A id \in OfferIds : Tallied(disputeCases[id], now)

(* A ruling is final: once a case has an outcome nothing about it changes  *)
(* and the sale is never disputed again, in or out of the dispute window.  *)
RulingsAreFinal ==
    [][\A id \in OfferIds : disputeCases[id].outcome # "None" =>
          /\ disputeCases'[id] = disputeCases[id]
          /\ offers'[id].status # "Disputed"]_vars

-----------------------------------------------------------------------------
(* Referrals.                                                              *)

(* Following referrers never leads round in a circle: every group of       *)
(* attributed accounts has a member whose referrer is outside it.          *)
NoReferralCycle ==
    \A S \in (SUBSET {a \in Accounts : attributions[a].referrer # NoOne}) \ {{}} :
        \E a \in S : attributions[a].referrer \notin S

Earned(id) ==
    LET o == offers[id]
        a == attributions[o.seller]
        first == firstExternalOrderAt[o.seller]
    IN  o.referrer # NoOne =>
            /\ o.independent
            /\ o.referrer \notin {Buyer(id), o.seller, AcquisitionVault}
            /\ a.referrer = o.referrer
            /\ first # 0
            /\ first \in a.acceptedAt .. a.acceptedAt + ReferralActivationWindow - 1
            /\ o.issuedAt \in first .. first + ReferralTerm - 1

(* Every referral share goes to the seller's own registered referrer, who  *)
(* is no party to the sale, on an independent sale, inside the one term    *)
(* that started after the attribution, within the activation window; and   *)
(* no group of accounts refers itself.                                     *)
ReferralsAreEarned == NoReferralCycle /\ \A id \in OfferIds : Earned(id)

-----------------------------------------------------------------------------
(* Consent and review.                                                     *)

Funds(id) == offers[id].status = "None" /\ offers'[id].status # "None"

(* Each use of a sale authorization funds an accepted sale of the material *)
(* it names, at its price, retaining for the seller at least what was      *)
(* signed: under any tariff, by the seller's or the delegate's signature.  *)
AuthorizedSalesHonourTerms ==
    [][\A k \in SaleKeys : authorizationUses'[k] # authorizationUses[k] =>
          LET a == authorizationDigests'[k] IN
          \E id \in OfferIds :
              /\ Funds(id)
              /\ a.buyer \in {NoOne, Buyer(id)}
              /\ offers'[id].status = "Accepted"
              /\ offers'[id].seller = a.seller
              /\ offers'[id].material = a.material
              /\ offers'[id].gross = a.gross
              /\ offers'[id].sellerAmount * 10000 >= a.gross * a.minSellerBps]_vars

(* A nonce stands for one set of signed terms, used no more often than     *)
(* these allow; a nonce the seller revoked is never used again, for a sale *)
(* or for a stream (one revocation map serves both).                       *)
ConsentIsBounded ==
    [][/\ \A k \in SaleKeys :
            /\ authorizationDigests[k] # NoOne =>
                  authorizationDigests'[k] = authorizationDigests[k]
            /\ authorizationDigests'[k] # NoOne =>
                  authorizationUses'[k] <= authorizationDigests'[k].maxUses
            /\ authorizationRevoked[k] => authorizationUses'[k] = authorizationUses[k]
       /\ \A k \in StreamKeys :
            /\ streamDigests'[k] # NoOne => streamUses'[k] <= streamDigests'[k].maxSales
            /\ authorizationRevoked[k] => streamUses'[k] = streamUses[k]]_vars

(* What a seller signed holds whoever funds the sale, and however often.   *)
ConsentIsHonoured == AuthorizedSalesHonourTerms /\ ConsentIsBounded

CurrentReviews ==
    reviewedInputs \cup
    {v.inputDigest : v \in {w \in signedReviews : now < w.validUntil /\ w.signer = operator}}

(* An independent sale is one whose review saw the tariff, the attribution *)
(* and the allocation it is funded with: a review made stale by            *)
(* governance, a registration or a change of holdings counts for nothing.  *)
ReviewsAreCurrent ==
    [][\A id \in OfferIds : Funds(id) /\ offers'[id].independent =>
          \E d \in CurrentReviews :
              LET o == offers'[id] IN
              /\ d.id = id /\ d.seller = o.seller /\ d.material = o.material
              /\ d.tariff = tariff
              /\ o.referrer \in {NoOne, d.attribution.referrer}
              /\ o.buyerDiscount = d.buyerDiscount
              /\ o.sellerAmount = o.gross - ServiceFee(d.tariff) + d.sellerDiscount]_vars

-----------------------------------------------------------------------------
(* Liveness.                                                               *)

(* Every funded offer is settled and everything owed is paid out, whether  *)
(* or not the parties act, and whether or not the market is paused.        *)
EveryOfferSettles ==
    /\ \A id \in OfferIds :
         offers[id].status \in Live ~> offers[id].status \in {"Finalized", "Refunded"}
    /\ \A a \in Accounts : claimable[a] > 0 ~> claimable[a] = 0

-----------------------------------------------------------------------------
(* The abstract escrow this contract implements.                           *)

TermsOf(o) ==
    [payment |-> Total(o),
     part |-> [seller |-> o.sellerAmount, referrer |-> o.referralAmount,
               protocol |-> ProtocolFee(o)],
     payee |-> [seller |-> o.seller,
                referrer |-> IF o.referrer = NoOne THEN ProtocolRecipient ELSE o.referrer,
                protocol |-> IF o.treasury THEN AcquisitionVault ELSE ProtocolRecipient]]

PhaseOf(id) ==
    CASE offers[id].status \in Live -> "held"
      [] offers[id].status = "Finalized" -> "paid"
      [] offers[id].status = "Refunded" /\ disputeCases[id].outcome = "BuyerWins" -> "split"
      [] OTHER -> "refunded"

SaleOf(id) ==
    IF offers[id].status = "None" THEN [phase |-> "unfunded"]
    ELSE [phase |-> PhaseOf(id), terms |-> TermsOf(offers[id])]

Escrow == INSTANCE SaleEscrow WITH
    Ids <- OfferIds, BuyerOf <- Buyer,
    sale <- [id \in OfferIds |-> SaleOf(id)], credit <- claimable, vault <- balance

(* The contract keeps the promise of SaleEscrow: one payment, allocated    *)
(* once when it is taken, leaves escrow exactly once and in full.          *)
ImplementsEscrow == Escrow!Spec
=============================================================================
