------------------------- MODULE ThotMarketProofs -------------------------
(***************************************************************************)
(* Theorems about ThotMarket, for every value of its constants.            *)
(***************************************************************************)
EXTENDS ThotMarket, SumTheorems

USE DEF Buyer

-----------------------------------------------------------------------------
(* Economics.                                                              *)

(* A share in basis points of an amount is an amount.                      *)
LEMMA MulBpsType ==
    ASSUME NEW v \in Nat, NEW bps \in Nat
    PROVE  MulBps(v, bps) \in Nat
<1>. DEFINE p == v * bps
<1>1. p \in Nat
  OBVIOUS
<1>2. MulBps(v, bps) = p \div 10000
  BY DEF MulBps
<1>. HIDE DEF p
<1>. QED
  BY <1>1, <1>2

(* A discount is an amount, within its side's ceiling.                     *)
LEMMA DiscountBounds ==
    ASSUME NEW rate \in Nat, NEW fee \in Nat, NEW c \in Nat
    PROVE  /\ DiscountCeiling(c) \in Nat
           /\ Discount(rate, fee, c) \in Nat
           /\ Discount(rate, fee, c) <= DiscountCeiling(c)
           /\ c - c \div 5 >= 2 * DiscountCeiling(c)
<1>1. DiscountCeiling(c) \in Nat /\ c - c \div 5 >= 2 * DiscountCeiling(c)
  BY DEF DiscountCeiling
<1>2. MulBps(fee, rate) \in Nat
  BY MulBpsType
<1>. QED
  BY <1>1, <1>2 DEF Discount

(* However rich both holders are, their discounts and the largest referral *)
(* together leave the direct cost to the protocol: ErrFEE_FLOOR is never   *)
(* the reason a sale fails under the bound discount policy.                *)
THEOREM DiscountsLeaveTheDirectCost ==
    ASSUME NEW t \in [directCost : Nat, overhead : Nat],
           NEW buyerRate \in Nat, NEW sellerRate \in Nat
    PROVE  Discount(buyerRate, ServiceFee(t), NetContribution(t))
             + Discount(sellerRate, ServiceFee(t), NetContribution(t))
             + ReferralShare(t) <= NetContribution(t)
<1>. DEFINE c == NetContribution(t)
            f == ServiceFee(t)
<1>1. c \in Nat /\ f \in Nat
  BY DEF NetContribution, ServiceFee
<1>2. ReferralShare(t) = (c * 2000) \div 10000
  BY DEF ReferralShare, MulBps
<1>. HIDE DEF c, f
<1>3. ReferralShare(t) = c \div 5
  BY <1>1, <1>2
<1>4. /\ DiscountCeiling(c) \in Nat
      /\ c - c \div 5 >= 2 * DiscountCeiling(c)
      /\ Discount(buyerRate, f, c) \in Nat
      /\ Discount(buyerRate, f, c) <= DiscountCeiling(c)
      /\ Discount(sellerRate, f, c) \in Nat
      /\ Discount(sellerRate, f, c) <= DiscountCeiling(c)
  BY <1>1, DiscountBounds
<1>5. Discount(buyerRate, f, c) + Discount(sellerRate, f, c) + ReferralShare(t) <= c
  BY <1>1, <1>3, <1>4
<1>. QED
  BY <1>5 DEF c, f

-----------------------------------------------------------------------------
(* Types.                                                                  *)

Typed == TypeOK /\ OffersAddUp

LEMMA NoOfferTyped == NoOffer \in OfferType /\ NoCase \in CaseType
BY DEF NoOffer, NoCase, OfferType, CaseType, Statuses, Decisions

LEMMA InitTyped == Init => Typed
<1>. SUFFICES ASSUME Init PROVE Typed
  OBVIOUS
<1>1. SalesTyped
  BY NoOfferTyped DEF Init, SalesTyped
<1>2. MoneyTyped
  BY DEF Init, MoneyTyped
<1>3. ReferralTyped
  BY DEF Init, ReferralTyped
<1>4. ConsentTyped
  BY DEF Init, ConsentTyped
<1>5. GovernanceTyped
  <2>1. rateBps \in [Accounts -> Rates]
    BY PricesAssumption DEF Init
  <2>2. operator \in Accounts
    BY AccountsAssumption DEF Init
  <2>3. /\ tariff \in Tariffs \cup {InitialTariff}
        /\ feeDiscounts \in DiscountPolicies \cup {NoOne}
        /\ paused \in BOOLEAN
        /\ queued \in [GovernanceOps -> Nat]
    BY DEF Init
  <2>. QED
    BY <2>1, <2>2, <2>3 DEF GovernanceTyped
<1>6. OffersAddUp
  BY DEF Init, OffersAddUp, NoOffer, Total, ProtocolFee
<1>7. now \in Nat /\ now >= 1
  BY DEF Init
<1>. QED
  BY <1>1, <1>2, <1>3, <1>4, <1>5, <1>6, <1>7 DEF Typed, TypeOK

LEMMA ContextUnchanged ==
    ASSUME ReferralTyped, ConsentTyped, GovernanceTyped, UNCHANGED context
    PROVE  ReferralTyped' /\ ConsentTyped' /\ GovernanceTyped'
BY DEF ReferralTyped, ConsentTyped, GovernanceTyped, context, referral, reviews,
       consent, governance

LEMMA OfferUpdates ==
    ASSUME NEW o \in OfferType, NEW st \in Statuses, NEW t \in Nat
    PROVE  /\ [o EXCEPT !.status = st] \in OfferType
           /\ [o EXCEPT !.status = st, !.acceptedAt = t] \in OfferType
           /\ [o EXCEPT !.status = st, !.deliveredAt = t] \in OfferType
BY DEF OfferType

LEMMA CaseUpdates ==
    ASSUME NEW c \in CaseType, NEW t \in Nat, NEW u \in Nat, NEW d \in Decisions
    PROVE  /\ [c EXCEPT !.responded = TRUE] \in CaseType
           /\ [c EXCEPT !.voteStartsAt = t, !.voteEndsAt = u] \in CaseType
           /\ [c EXCEPT !.outcome = d] \in CaseType
BY DEF CaseType

(* What a holder saves is an amount; so is what a seller is offered.       *)
LEMMA TermsAreAmounts ==
    ASSUME GovernanceTyped, NEW buyer \in Accounts, NEW holder \in Accounts
    PROVE  /\ tariff.directCost \in Nat
           /\ ServiceFee(tariff) \in Nat
           /\ HolderDiscount(buyer, holder) \in Nat
           /\ ReferralShare(tariff) \in Nat
<1>1. tariff \in [directCost : Nat, overhead : Nat]
  BY PricesAssumption DEF GovernanceTyped
<1>2. NetContribution(tariff) \in Nat /\ ServiceFee(tariff) \in Nat
  BY <1>1 DEF NetContribution, ServiceFee
<1>3. rateBps[holder] \in Nat
  <2>1. rateBps[holder] \in Rates
    BY DEF GovernanceTyped
  <2>2. Rates \subseteq Nat
    BY PricesAssumption
  <2>. QED
    BY <2>1, <2>2
<1>4. HolderDiscount(buyer, holder) \in Nat
  BY <1>2, <1>3, DiscountBounds DEF HolderDiscount
<1>5. ReferralShare(tariff) \in Nat
  <2>. DEFINE c == NetContribution(tariff)
  <2>1. c \in Nat /\ ReferralShare(tariff) = (c * 2000) \div 10000
    BY <1>2 DEF ReferralShare, MulBps
  <2>. HIDE DEF c
  <2>. QED
    BY <2>1
<1>. QED
  BY <1>1, <1>2, <1>4, <1>5

LEMMA FundedOfferTyped ==
    ASSUME Typed, NEW id \in OfferIds, NEW seller \in Accounts,
           NEW material \in Materials, NEW gross \in Nat,
           NEW reviewed \in BOOLEAN, gross >= ServiceFee(tariff)
    PROVE  /\ FundedOffer(id, seller, material, gross, reviewed) \in OfferType
           /\ [FundedOffer(id, seller, material, gross, reviewed)
                 EXCEPT !.status = "Accepted", !.acceptedAt = now] \in OfferType
<1>. DEFINE o == FundedOffer(id, seller, material, gross, reviewed)
            pays == ReferralPays(id, seller, reviewed)
            referrer == IF pays THEN attributions[seller].referrer ELSE NoOne
            share == IF pays THEN ReferralShare(tariff) ELSE 0
            kept == gross - ServiceFee(tariff) + HolderDiscount(Buyer(id), seller)
<1>1. Buyer(id) \in Accounts
  BY AccountsAssumption
<1>2. kept \in Nat /\ share \in Nat /\ HolderDiscount(Buyer(id), Buyer(id)) \in Nat
  BY <1>1, TermsAreAmounts DEF Typed, TypeOK
<1>3. referrer \in Accounts \cup {NoOne}
  BY DEF Typed, TypeOK, ReferralTyped
<1>4. o = [NoOffer EXCEPT !.status = "Offered", !.seller = seller,
             !.referrer = referrer, !.gross = gross, !.sellerAmount = kept,
             !.referralAmount = share,
             !.buyerDiscount = HolderDiscount(Buyer(id), Buyer(id)),
             !.material = material, !.treasury = (Buyer(id) = AcquisitionVault),
             !.independent = (Buyer(id) # AcquisitionVault /\ reviewed),
             !.issuedAt = now]
  BY DEF FundedOffer
<1>5. now \in Nat
  BY DEF Typed, TypeOK
<1>. HIDE DEF o, pays, referrer, share, kept
<1>6. o \in OfferType
  BY <1>2, <1>3, <1>4, <1>5 DEF NoOffer, OfferType, Statuses
<1>7. [o EXCEPT !.status = "Accepted", !.acceptedAt = now] \in OfferType
  BY <1>5, <1>6, OfferUpdates DEF Statuses
<1>. QED
  BY <1>6, <1>7 DEF o

LEMMA CreateTyped ==
    ASSUME Typed, NEW id \in OfferIds, NEW seller \in Accounts,
           NEW gross \in Nat, NEW maxPayment, NEW reviewed \in BOOLEAN,
           NEW o \in OfferType,
           _createOffer(id, seller, gross, maxPayment, reviewed, o)
    PROVE  /\ now' \in Nat /\ now' >= 1
           /\ SalesTyped' /\ MoneyTyped' /\ GovernanceTyped' /\ OffersAddUp'
           /\ attributions' = attributions
           /\ firstExternalOrderAt' \in [Accounts -> Nat]
<1>1. tariff.directCost \in Nat
  BY PricesAssumption DEF Typed, TypeOK, GovernanceTyped
<1>2. Total(o) \in Nat /\ ProtocolFee(o) >= 0
  BY <1>1 DEF _createOffer, Total, ProtocolFee, OfferType
<1>3. SalesTyped'
  BY DEF _createOffer, Typed, TypeOK, SalesTyped
<1>4. MoneyTyped'
  BY <1>2 DEF _createOffer, Typed, TypeOK, MoneyTyped
<1>5. OffersAddUp'
  BY <1>2 DEF _createOffer, Typed, TypeOK, SalesTyped, OffersAddUp, Total, ProtocolFee
<1>6. GovernanceTyped' /\ now' = now /\ attributions' = attributions
  BY DEF _createOffer, Typed, TypeOK, GovernanceTyped, governance
<1>7. firstExternalOrderAt' \in [Accounts -> Nat]
  BY DEF _createOffer, Typed, TypeOK, ReferralTyped
<1>. QED
  BY <1>3, <1>4, <1>5, <1>6, <1>7 DEF Typed, TypeOK

LEMMA ConsentUseTyped ==
    ASSUME ConsentTyped, NEW id, NEW a \in SaleAuthorizations,
           _useSaleAuthorization(id, a)
    PROVE  ConsentTyped'
<1>1. SaleKey(a) \in SaleKeys
  BY DEF SaleKey, SaleKeys
<1>2. /\ authorizationUses' \in [SaleKeys -> Nat]
      /\ authorizationDigests' \in [SaleKeys -> SaleAuthorizations \cup {NoOne}]
      /\ authorizationRevoked' = authorizationRevoked
  BY <1>1 DEF _useSaleAuthorization, ConsentTyped
<1>3. CASE SellerSigned(a)
  BY <1>2, <1>3 DEF SellerSigned, ConsentTyped
<1>4. ASSUME NEW st \in StreamAuthorizations, StreamSigned(a, st)
      PROVE  ConsentTyped'
  <2>1. SaleKey(st) \in StreamKeys
    BY DEF SaleKey, StreamKeys
  <2>. QED
    BY <1>2, <1>4, <2>1 DEF StreamSigned, ConsentTyped
<1>. QED
  BY <1>3, <1>4 DEF _useSaleAuthorization

LEMMA FundingTyped ==
    ASSUME Typed, Funding
    PROVE  Typed'
<1>1. ASSUME NEW id \in OfferIds, NEW maxPayment \in Prices, NEW s \in Sellers,
             NEW m \in Materials, NEW g \in Prices,
             createOffer(id, s, m, g, maxPayment)
      PROVE  Typed'
  <2>. DEFINE rev == InputDigest(id, s, m, g) \in reviewedInputs
              o == FundedOffer(id, s, m, g, rev)
  <2>1. _createOffer(id, s, g, maxPayment, rev, o)
        /\ UNCHANGED <<hasAcceptedSale, consent>>
    BY <1>1 DEF createOffer
  <2>2. g \in Nat /\ s \in Accounts /\ rev \in BOOLEAN /\ g >= ServiceFee(tariff)
    BY <2>1, PricesAssumption, AccountsAssumption DEF _createOffer
  <2>3. o \in OfferType
    BY <2>2, FundedOfferTyped
  <2>. HIDE DEF o, rev
  <2>4. /\ now' \in Nat /\ now' >= 1
        /\ SalesTyped' /\ MoneyTyped' /\ GovernanceTyped' /\ OffersAddUp'
        /\ attributions' = attributions
        /\ firstExternalOrderAt' \in [Accounts -> Nat]
    BY <2>1, <2>2, <2>3, CreateTyped
  <2>5. ReferralTyped' /\ ConsentTyped'
    BY <2>1, <2>4 DEF Typed, TypeOK, ReferralTyped, ConsentTyped, consent
  <2>. QED
    BY <2>4, <2>5 DEF Typed, TypeOK
<1>2. ASSUME NEW id \in OfferIds, NEW maxPayment \in Prices,
             NEW a \in SaleAuthorizations, NEW rev \in BOOLEAN,
             _createAuthorizedOffer(id, a, maxPayment, rev)
      PROVE  Typed'
  <2>. DEFINE o == [FundedOffer(id, a.seller, a.material, a.gross, rev)
                      EXCEPT !.status = "Accepted", !.acceptedAt = now]
  <2>1. /\ _useSaleAuthorization(id, a)
        /\ _createOffer(id, a.seller, a.gross, maxPayment, rev, o)
        /\ hasAcceptedSale' = [hasAcceptedSale EXCEPT ![a.seller] = TRUE]
    BY <1>2 DEF _createAuthorizedOffer
  <2>2. /\ a.seller \in Accounts /\ a.material \in Materials /\ a.gross \in Nat
        /\ a.gross >= ServiceFee(tariff)
    BY <2>1, ConsentAssumption, PricesAssumption DEF _createOffer
  <2>3. o \in OfferType
    BY <2>2, FundedOfferTyped
  <2>. HIDE DEF o
  <2>4. /\ now' \in Nat /\ now' >= 1
        /\ SalesTyped' /\ MoneyTyped' /\ GovernanceTyped' /\ OffersAddUp'
        /\ attributions' = attributions
        /\ firstExternalOrderAt' \in [Accounts -> Nat]
    BY <2>1, <2>2, <2>3, CreateTyped
  <2>5. ReferralTyped'
    BY <2>1, <2>2, <2>4 DEF Typed, TypeOK, ReferralTyped
  <2>6. ConsentTyped'
    BY <2>1, ConsentUseTyped DEF Typed, TypeOK
  <2>. QED
    BY <2>4, <2>5, <2>6 DEF Typed, TypeOK
<1>3. ASSUME NEW id \in OfferIds, NEW maxPayment \in Prices,
             NEW a \in SaleAuthorizations,
             \/ createAuthorizedOffer(id, a, maxPayment)
             \/ \E v \in signedReviews :
                   createReviewedAuthorizedOffer(id, a, maxPayment, v)
      PROVE  Typed'
  <2>1. CASE createAuthorizedOffer(id, a, maxPayment)
    <3>. DEFINE rev == InputDigest(id, a.seller, a.material, a.gross) \in reviewedInputs
    <3>1. rev \in BOOLEAN /\ _createAuthorizedOffer(id, a, maxPayment, rev)
      BY <2>1 DEF createAuthorizedOffer
    <3>. QED
      BY <1>2, <3>1
  <2>2. CASE \E v \in signedReviews : createReviewedAuthorizedOffer(id, a, maxPayment, v)
    <3>1. _createAuthorizedOffer(id, a, maxPayment, TRUE)
      BY <2>2 DEF createReviewedAuthorizedOffer
    <3>. QED
      BY <1>2, <3>1
  <2>. QED
    BY <1>3, <2>1, <2>2
<1>. QED
  BY <1>1, <1>3 DEF Funding

(* After funding only the status and the time stamps of an offer change.   *)
LEMMA ProgressTyped ==
    ASSUME Typed, NEW id \in OfferIds, NEW st \in Statuses, NEW t \in Nat,
           \/ offers' = [offers EXCEPT ![id].status = st]
           \/ offers' = [offers EXCEPT ![id].status = st, ![id].acceptedAt = t]
           \/ offers' = [offers EXCEPT ![id].status = st, ![id].deliveredAt = t]
    PROVE  offers' \in [OfferIds -> OfferType] /\ OffersAddUp'
<1>1. offers \in [OfferIds -> OfferType]
  BY DEF Typed, TypeOK, SalesTyped
<1>2. offers' \in [OfferIds -> OfferType]
  <2>1. CASE offers' = [offers EXCEPT ![id].status = st]
    BY <1>1, <2>1, OfferUpdates
  <2>2. CASE offers' = [offers EXCEPT ![id].status = st, ![id].acceptedAt = t]
    BY <1>1, <2>2, OfferUpdates
  <2>3. CASE offers' = [offers EXCEPT ![id].status = st, ![id].deliveredAt = t]
    BY <1>1, <2>3, OfferUpdates
  <2>. QED
    BY <2>1, <2>2, <2>3
<1>3. \A i \in OfferIds : Total(offers'[i]) = Total(offers[i])
                          /\ ProtocolFee(offers'[i]) = ProtocolFee(offers[i])
  BY <1>1 DEF OfferType, Total, ProtocolFee
<1>. QED
  BY <1>2, <1>3 DEF Typed, OffersAddUp

LEMMA TotalsAreAmounts ==
    ASSUME Typed, NEW id \in OfferIds
    PROVE  Total(offers[id]) \in Nat /\ ProtocolFee(offers[id]) \in Nat
BY DEF Typed, TypeOK, SalesTyped, OffersAddUp, OfferType, Total, ProtocolFee

LEMMA RefundTyped ==
    ASSUME Typed, NEW id \in OfferIds, _refund(id)
    PROVE  Typed'
<1>1. offers' \in [OfferIds -> OfferType] /\ OffersAddUp'
  BY ProgressTyped DEF _refund, Statuses
<1>2. MoneyTyped'
  BY AccountsAssumption, TotalsAreAmounts
     DEF _refund, ReleaseEscrow, Typed, TypeOK, MoneyTyped
<1>3. ReferralTyped' /\ ConsentTyped' /\ GovernanceTyped'
  BY ContextUnchanged DEF _refund, Typed, TypeOK
<1>4. SalesTyped' /\ now' \in Nat /\ now' >= 1
  BY <1>1 DEF _refund, Typed, TypeOK, SalesTyped
<1>. QED
  BY <1>1, <1>2, <1>3, <1>4 DEF Typed, TypeOK

LEMMA SharesAreAmounts ==
    ASSUME Typed, NEW id \in OfferIds
    PROVE  \A a \in Accounts : Share(offers[id], a) \in Nat
<1>1. offers[id].sellerAmount \in Nat /\ offers[id].referralAmount \in Nat
  BY DEF Typed, TypeOK, SalesTyped, OfferType
<1>. QED
  BY <1>1, TotalsAreAmounts DEF Share

LEMMA SettlementTyped ==
    ASSUME Typed, Settlement
    PROVE  Typed'
<1>1. ASSUME NEW id \in OfferIds, acceptOffer(id)
      PROVE  Typed'
  <2>1. offers' \in [OfferIds -> OfferType] /\ OffersAddUp'
    BY <1>1, ProgressTyped DEF acceptOffer, Statuses, Typed, TypeOK
  <2>2. SalesTyped' /\ MoneyTyped' /\ now' \in Nat /\ now' >= 1
    BY <1>1, <2>1 DEF acceptOffer, Typed, TypeOK, SalesTyped, MoneyTyped, money
  <2>3. ReferralTyped'
    BY <1>1 DEF acceptOffer, Typed, TypeOK, ReferralTyped
  <2>4. ConsentTyped' /\ GovernanceTyped'
    BY <1>1 DEF acceptOffer, Typed, TypeOK, ConsentTyped, GovernanceTyped,
                consent, governance
  <2>. QED
    BY <2>1, <2>2, <2>3, <2>4 DEF Typed, TypeOK
<1>2. ASSUME NEW id \in OfferIds, markDelivered(id)
      PROVE  Typed'
  <2>1. offers' \in [OfferIds -> OfferType] /\ OffersAddUp'
    BY <1>2, ProgressTyped DEF markDelivered, Statuses, Typed, TypeOK
  <2>2. SalesTyped' /\ MoneyTyped' /\ now' \in Nat /\ now' >= 1
    BY <1>2, <2>1 DEF markDelivered, Typed, TypeOK, SalesTyped, MoneyTyped, money
  <2>3. ReferralTyped' /\ ConsentTyped' /\ GovernanceTyped'
    BY <1>2, ContextUnchanged DEF markDelivered, Typed, TypeOK, context
  <2>. QED
    BY <2>1, <2>2, <2>3 DEF Typed, TypeOK
<1>3. ASSUME NEW id \in OfferIds, finalize(id)
      PROVE  Typed'
  <2>1. offers' \in [OfferIds -> OfferType] /\ OffersAddUp'
    BY <1>3, ProgressTyped DEF finalize, Statuses
  <2>2. MoneyTyped'
    BY <1>3, AccountsAssumption, TotalsAreAmounts, SharesAreAmounts
       DEF finalize, ReleaseEscrow, Typed, TypeOK, MoneyTyped
  <2>3. SalesTyped' /\ now' \in Nat /\ now' >= 1
    BY <1>3, <2>1 DEF finalize, Typed, TypeOK, SalesTyped
  <2>4. ReferralTyped' /\ ConsentTyped' /\ GovernanceTyped'
    BY <1>3, ContextUnchanged DEF finalize, Typed, TypeOK
  <2>. QED
    BY <2>1, <2>2, <2>3, <2>4 DEF Typed, TypeOK
<1>4. ASSUME NEW id \in OfferIds,
             refundExpired(id) \/ cancelOffer(id) \/ refundUndelivered(id)
      PROVE  Typed'
  BY <1>4, RefundTyped DEF refundExpired, cancelOffer, refundUndelivered
<1>5. ASSUME NEW a \in Accounts, _claim(a)
      PROVE  Typed'
  <2>1. MoneyTyped'
    BY <1>5 DEF _claim, Typed, TypeOK, MoneyTyped
  <2>2. SalesTyped' /\ OffersAddUp' /\ now' \in Nat /\ now' >= 1
    BY <1>5 DEF _claim, Typed, TypeOK, SalesTyped, OffersAddUp, sales
  <2>3. ReferralTyped' /\ ConsentTyped' /\ GovernanceTyped'
    BY <1>5, ContextUnchanged DEF _claim, Typed, TypeOK
  <2>. QED
    BY <2>1, <2>2, <2>3 DEF Typed, TypeOK
<1>. QED
  BY <1>1, <1>2, <1>3, <1>4, <1>5 DEF Settlement

LEMMA CastVoteTyped ==
    ASSUME NEW c \in CaseType, NEW r \in Reviewers, NEW d \in Decisions
    PROVE  [c EXCEPT !.votes[r] = d,
              !.buyerVotes = IF d = "BuyerWins" THEN @ + 1 ELSE @,
              !.upholdVotes = IF d = "Uphold" THEN @ + 1 ELSE @] \in CaseType
<1>. DEFINE v == [c.votes EXCEPT ![r] = d]
            b == IF d = "BuyerWins" THEN c.buyerVotes + 1 ELSE c.buyerVotes
            u == IF d = "Uphold" THEN c.upholdVotes + 1 ELSE c.upholdVotes
<1>1. v \in [Reviewers -> Decisions] /\ b \in Nat /\ u \in Nat
  BY DEF CaseType
<1>2. [c EXCEPT !.votes[r] = d,
         !.buyerVotes = IF d = "BuyerWins" THEN @ + 1 ELSE @,
         !.upholdVotes = IF d = "Uphold" THEN @ + 1 ELSE @]
       = [c EXCEPT !.votes = v, !.buyerVotes = b, !.upholdVotes = u]
  BY DEF CaseType
<1>. HIDE DEF v, b, u
<1>3. [c EXCEPT !.votes = v, !.buyerVotes = b, !.upholdVotes = u] \in CaseType
  BY <1>1 DEF CaseType
<1>. QED
  BY <1>2, <1>3

LEMMA OpenCaseTyped ==
    ASSUME NEW t \in Nat, NEW u \in Nat, NEW v \in Nat
    PROVE  [NoCase EXCEPT !.openedAt = t, !.voteStartsAt = u, !.voteEndsAt = v]
             \in CaseType
BY DEF NoCase, CaseType, Decisions

LEMMA UpholdTyped ==
    ASSUME Typed, NEW id \in OfferIds, NEW c \in CaseType, _adjudicateUphold(id, c)
    PROVE  SalesTyped' /\ MoneyTyped' /\ OffersAddUp'
<1>1. offers' \in [OfferIds -> OfferType] /\ OffersAddUp'
  BY ProgressTyped DEF _adjudicateUphold, Statuses
<1>2. [c EXCEPT !.outcome = "Uphold"] \in CaseType
  BY CaseUpdates DEF Decisions
<1>. QED
  BY <1>1, <1>2 DEF _adjudicateUphold, Typed, TypeOK, SalesTyped, MoneyTyped, money

LEMMA BuyerWinTyped ==
    ASSUME Typed, NEW id \in OfferIds, NEW c \in CaseType, _adjudicateBuyerWin(id, c)
    PROVE  SalesTyped' /\ MoneyTyped' /\ OffersAddUp'
<1>1. offers' \in [OfferIds -> OfferType] /\ OffersAddUp'
  BY ProgressTyped DEF _adjudicateBuyerWin, Statuses
<1>2. [c EXCEPT !.outcome = "BuyerWins"] \in CaseType
  BY CaseUpdates DEF Decisions
<1>3. SalesTyped'
  BY <1>1, <1>2 DEF _adjudicateBuyerWin, Typed, TypeOK, SalesTyped
<1>4. MoneyTyped'
  <2>. DEFINE total == Total(offers[id])
              half == total \div 2
  <2>1. total \in Nat /\ half \in Nat /\ total - half \in Nat
    BY TotalsAreAmounts
  <2>. QED
    BY <2>1, AccountsAssumption
       DEF _adjudicateBuyerWin, ReleaseEscrow, Typed, TypeOK, MoneyTyped
<1>. QED
  BY <1>1, <1>3, <1>4

LEMMA DisputesTyped ==
    ASSUME Typed, Disputes
    PROVE  Typed'
<1>1. ASSUME NEW id \in OfferIds, dispute(id)
      PROVE  Typed'
  <2>1. offers' \in [OfferIds -> OfferType] /\ OffersAddUp'
    BY <1>1, ProgressTyped DEF dispute, Statuses
  <2>2. [NoCase EXCEPT !.openedAt = now,
            !.voteStartsAt = now + SellerResponseWindow,
            !.voteEndsAt = now + SellerResponseWindow + DisputeVoteWindow] \in CaseType
    <3>1. /\ now \in Nat /\ now + SellerResponseWindow \in Nat
          /\ now + SellerResponseWindow + DisputeVoteWindow \in Nat
      BY WindowsAssumption DEF Windows, Typed, TypeOK
    <3>. QED
      BY <3>1, OpenCaseTyped
  <2>3. SalesTyped'
    BY <1>1, <2>1, <2>2 DEF dispute, Typed, TypeOK, SalesTyped
  <2>4. ReferralTyped' /\ ConsentTyped' /\ GovernanceTyped'
    BY <1>1, ContextUnchanged DEF dispute, Typed, TypeOK
  <2>5. MoneyTyped' /\ now' \in Nat /\ now' >= 1
    BY <1>1 DEF dispute, Typed, TypeOK, MoneyTyped, money
  <2>. QED
    BY <2>1, <2>3, <2>4, <2>5 DEF Typed, TypeOK
<1>2. ASSUME NEW id \in OfferIds,
             respondToDispute(id) \/ waiveDisputeResponseWindow(id)
      PROVE  Typed'
  <2>0. disputeCases[id] \in CaseType
    BY DEF Typed, TypeOK, SalesTyped
  <2>1. SalesTyped'
    <3>1. CASE respondToDispute(id)
      <4>1. [disputeCases[id] EXCEPT !.responded = TRUE] \in CaseType
        BY <2>0, CaseUpdates DEF Typed, TypeOK, Decisions
      <4>. QED
        BY <3>1, <4>1 DEF respondToDispute, Typed, TypeOK, SalesTyped
    <3>2. CASE waiveDisputeResponseWindow(id)
      <4>1. now \in Nat /\ now + DisputeVoteWindow \in Nat
        BY WindowsAssumption DEF Windows, Typed, TypeOK
      <4>2. [disputeCases[id] EXCEPT !.voteStartsAt = now,
                !.voteEndsAt = now + DisputeVoteWindow] \in CaseType
        BY <2>0, <4>1, CaseUpdates DEF Decisions
      <4>. QED
        BY <3>2, <4>2 DEF waiveDisputeResponseWindow, Typed, TypeOK, SalesTyped
    <3>. QED
      BY <1>2, <3>1, <3>2
  <2>2. UNCHANGED <<now, offers, money, context>>
    BY <1>2 DEF respondToDispute, waiveDisputeResponseWindow
  <2>3. ReferralTyped' /\ ConsentTyped' /\ GovernanceTyped'
    BY <2>2, ContextUnchanged DEF Typed, TypeOK
  <2>4. MoneyTyped' /\ OffersAddUp' /\ now' \in Nat /\ now' >= 1
    BY <2>2 DEF Typed, TypeOK, MoneyTyped, money, OffersAddUp
  <2>. QED
    BY <2>1, <2>3, <2>4 DEF Typed, TypeOK
<1>3. ASSUME NEW id \in OfferIds, NEW r \in Reviewers,
             NEW d \in {"Uphold", "BuyerWins"}, voteDispute(id, r, d)
      PROVE  Typed'
  <2>. DEFINE c == [disputeCases[id] EXCEPT !.votes[r] = d,
                      !.buyerVotes = IF d = "BuyerWins" THEN @ + 1 ELSE @,
                      !.upholdVotes = IF d = "Uphold" THEN @ + 1 ELSE @]
  <2>1. c \in CaseType
    BY CastVoteTyped DEF Decisions, Typed, TypeOK, SalesTyped
  <2>2. /\ \/ _adjudicateBuyerWin(id, c)
           \/ _adjudicateUphold(id, c)
           \/ /\ disputeCases' = [disputeCases EXCEPT ![id] = c]
              /\ UNCHANGED <<offers, money>>
        /\ UNCHANGED <<now, context>>
    BY <1>3 DEF voteDispute
  <2>. HIDE DEF c
  <2>3. SalesTyped' /\ MoneyTyped' /\ OffersAddUp'
    <3>1. CASE _adjudicateBuyerWin(id, c)
      BY <2>1, <3>1, BuyerWinTyped
    <3>2. CASE _adjudicateUphold(id, c)
      BY <2>1, <3>2, UpholdTyped
    <3>3. CASE disputeCases' = [disputeCases EXCEPT ![id] = c]
               /\ UNCHANGED <<offers, money>>
      BY <2>1, <3>3 DEF Typed, TypeOK, SalesTyped, MoneyTyped, OffersAddUp, money
    <3>. QED
      BY <2>2, <3>1, <3>2, <3>3
  <2>4. ReferralTyped' /\ ConsentTyped' /\ GovernanceTyped'
    BY <2>2, ContextUnchanged DEF Typed, TypeOK
  <2>. QED
    BY <2>2, <2>3, <2>4 DEF Typed, TypeOK
<1>4. ASSUME NEW id \in OfferIds, finalizeExpiredDispute(id)
      PROVE  Typed'
  <2>1. disputeCases[id] \in CaseType
    BY DEF Typed, TypeOK, SalesTyped
  <2>2. SalesTyped' /\ MoneyTyped' /\ OffersAddUp'
    BY <1>4, <2>1, UpholdTyped DEF finalizeExpiredDispute
  <2>3. ReferralTyped' /\ ConsentTyped' /\ GovernanceTyped'
    BY <1>4, ContextUnchanged DEF finalizeExpiredDispute, Typed, TypeOK
  <2>. QED
    BY <1>4, <2>2, <2>3 DEF finalizeExpiredDispute, Typed, TypeOK
<1>. QED
  BY <1>1, <1>2, <1>3, <1>4 DEF Disputes

LEMMA OutsideTyped ==
    ASSUME Typed, UNCHANGED <<sales, money, referral>>, ConsentTyped',
           GovernanceTyped', now' \in Nat, now' >= 1
    PROVE  Typed'
<1>1. SalesTyped' /\ MoneyTyped' /\ ReferralTyped' /\ OffersAddUp'
  BY DEF Typed, TypeOK, SalesTyped, MoneyTyped, ReferralTyped, OffersAddUp,
         sales, money, referral
<1>. QED
  BY <1>1 DEF Typed, TypeOK

LEMMA ReviewingTyped ==
    ASSUME Typed, Reviewing
    PROVE  Typed'
<1>1. UNCHANGED <<now, sales, money, referral, consent, governance>>
  BY DEF Reviewing, reviewOffer, signIndependentReview
<1>2. ConsentTyped' /\ GovernanceTyped' /\ now' \in Nat /\ now' >= 1
  BY <1>1 DEF Typed, TypeOK, ConsentTyped, GovernanceTyped, consent, governance
<1>. QED
  BY <1>1, <1>2, OutsideTyped

LEMMA ConsentingTyped ==
    ASSUME Typed, Consenting
    PROVE  Typed'
<1>1. ASSUME NEW key \in SaleKeys \cup StreamKeys, revokeSaleAuthorization(key)
      PROVE  Typed'
  <2>1. ConsentTyped'
    BY <1>1 DEF revokeSaleAuthorization, Typed, TypeOK, ConsentTyped
  <2>2. GovernanceTyped' /\ now' \in Nat /\ now' >= 1
    BY <1>1 DEF revokeSaleAuthorization, Typed, TypeOK, GovernanceTyped, governance
  <2>. QED
    BY <1>1, <2>1, <2>2, OutsideTyped DEF revokeSaleAuthorization
<1>2. ASSUME NEW a \in Sellers, NEW r \in Referrers, registerReferrer(a, r)
      PROVE  Typed'
  <2>1. [referrer |-> r, acceptedAt |-> now]
          \in [referrer : Accounts \cup {NoOne}, acceptedAt : Nat]
    BY AccountsAssumption DEF Typed, TypeOK
  <2>2. ReferralTyped'
    BY <1>2, <2>1 DEF registerReferrer, Typed, TypeOK, ReferralTyped
  <2>3. /\ SalesTyped' /\ MoneyTyped' /\ OffersAddUp'
        /\ ConsentTyped' /\ GovernanceTyped' /\ now' \in Nat /\ now' >= 1
    BY <1>2 DEF registerReferrer, Typed, TypeOK, SalesTyped, MoneyTyped, OffersAddUp,
                ConsentTyped, GovernanceTyped, sales, money, consent, governance
  <2>. QED
    BY <2>2, <2>3 DEF Typed, TypeOK
<1>. QED
  BY <1>1, <1>2 DEF Consenting

LEMMA GoverningTyped ==
    ASSUME Typed, Governing
    PROVE  Typed'
<1>1. /\ UNCHANGED <<now, sales, money, referral, consent, rateBps>>
      /\ \/ tariff' = tariff
         \/ \E t \in Tariffs : tariff' = t
      /\ \/ feeDiscounts' = feeDiscounts
         \/ \E p \in DiscountPolicies : feeDiscounts' = p
      /\ \/ operator' = operator
         \/ \E a \in Accounts : operator' = a
      /\ paused' \in {paused, TRUE, FALSE}
      /\ \/ queued' = queued
         \/ \E op \in GovernanceOps :
               queued' = [queued EXCEPT ![op] = now + GovernanceDelay]
         \/ \E op \in GovernanceOps : queued' = [queued EXCEPT ![op] = 0]
  <2>1. CASE \E op \in GovernanceOps : queueGovernance(op) \/ cancelGovernance(op)
    BY <2>1 DEF queueGovernance, cancelGovernance, _queue
  <2>2. CASE \E a \in Accounts : executeOperator(a)
    BY <2>2 DEF executeOperator, _consume
  <2>3. CASE \E t \in Tariffs : executeTariff(t)
    BY <2>3 DEF executeTariff, _consume
  <2>4. CASE pause \/ unpause
    BY <2>4 DEF pause, unpause, _consume
  <2>5. CASE \E p \in DiscountPolicies : bindFeeDiscounts(p)
    BY <2>5 DEF bindFeeDiscounts
  <2>. QED
    BY <2>1, <2>2, <2>3, <2>4, <2>5 DEF Governing
<1>2. now + GovernanceDelay \in Nat
  BY WindowsAssumption DEF Typed, TypeOK
<1>3. queued' \in [GovernanceOps -> Nat]
  BY <1>1, <1>2 DEF Typed, TypeOK, GovernanceTyped
<1>4. GovernanceTyped'
  BY <1>1, <1>3 DEF Typed, TypeOK, GovernanceTyped
<1>5. ConsentTyped' /\ now' \in Nat /\ now' >= 1
  BY <1>1 DEF Typed, TypeOK, ConsentTyped, consent
<1>. QED
  BY <1>1, <1>4, <1>5, OutsideTyped

LEMMA EnvironmentTyped ==
    ASSUME Typed, Environment
    PROVE  Typed'
<1>1. ASSUME NEW a \in Accounts, NEW rate \in Rates, holdingsChange(a, rate)
      PROVE  Typed'
  <2>1. GovernanceTyped' /\ ConsentTyped' /\ now' \in Nat /\ now' >= 1
    BY <1>1 DEF holdingsChange, Typed, TypeOK, GovernanceTyped, ConsentTyped, consent
  <2>. QED
    BY <1>1, <2>1, OutsideTyped DEF holdingsChange
<1>2. CASE Tick
  <2>1. ConsentTyped' /\ GovernanceTyped'
    BY <1>2, ContextUnchanged DEF Tick, Typed, TypeOK
  <2>2. now' \in Nat /\ now' >= 1
    BY <1>2 DEF Tick, Typed, TypeOK
  <2>. QED
    BY <1>2, <2>1, <2>2, OutsideTyped DEF Tick, context
<1>3. (Sellers \cup {Buyer(id) : id \in OfferIds}) \ {AcquisitionVault} \subseteq Accounts
  BY AccountsAssumption
<1>. QED
  BY <1>1, <1>2, <1>3 DEF Environment

LEMMA StutterTyped ==
    ASSUME Typed, UNCHANGED vars
    PROVE  Typed'
<1>1. ConsentTyped' /\ GovernanceTyped'
  BY ContextUnchanged DEF vars, Typed, TypeOK
<1>. QED
  BY <1>1, OutsideTyped DEF vars, context, Typed, TypeOK

LEMMA StepTyped ==
    ASSUME Typed, [Next]_vars
    PROVE  Typed'
BY FundingTyped, ReviewingTyped, SettlementTyped, DisputesTyped, ConsentingTyped,
   GoverningTyped, EnvironmentTyped, StutterTyped DEF Next

LEMMA AlwaysTyped == Spec => []Typed
<1>1. Init => Typed
  BY InitTyped
<1>2. Typed /\ [Next]_vars => Typed'
  BY StepTyped
<1>. QED
  BY <1>1, <1>2, PTL DEF Spec

(* Every variable of the market always has its declared type; in           *)
(* particular no liability, claim or balance is ever negative, although    *)
(* the model's subtractions are those of unbounded integers.               *)
THEOREM TypeCorrect == Spec => []TypeOK
<1>1. Typed => TypeOK
  BY DEF Typed
<1>. QED
  BY <1>1, AlwaysTyped, PTL

(* Every funded payment covers the seller's and the referrer's share, so   *)
(* the checked subtraction that computes the protocol's fee never reverts  *)
(* and a delivered sale can always be finalized.                           *)
THEOREM PaymentsAddUp == Spec => []OffersAddUp
<1>1. Typed => OffersAddUp
  BY DEF Typed
<1>. QED
  BY <1>1, AlwaysTyped, PTL

-----------------------------------------------------------------------------
(* Money.                                                                  *)

LEMMA CreateSolvent ==
    ASSUME Typed, Solvent, Typed', NEW id \in OfferIds, NEW seller, NEW gross,
           NEW maxPayment, NEW reviewed, NEW o,
           _createOffer(id, seller, gross, maxPayment, reviewed, o)
    PROVE  Solvent'
<1>1. offers'[id] = o
  BY DEF _createOffer, Typed, TypeOK, SalesTyped
<1>2. Total(o) \in Int
  BY <1>1 DEF Typed, TypeOK, SalesTyped, OfferType, Total
<1>. QED
  BY <1>2 DEF _createOffer, Solvent, Typed, TypeOK, MoneyTyped

LEMMA StepSolvent ==
    ASSUME Typed, Solvent, Typed', [Next]_vars
    PROVE  Solvent'
<1>1. CASE UNCHANGED money
  BY <1>1 DEF money, Solvent
<1>2. CASE Funding
  <2>1. ASSUME NEW id \in OfferIds, NEW sel \in Sellers, NEW m \in Materials,
               NEW g \in Prices, NEW max \in Prices, createOffer(id, sel, m, g, max)
        PROVE  Solvent'
    BY <2>1, CreateSolvent DEF createOffer
  <2>2. ASSUME NEW id \in OfferIds, NEW a \in SaleAuthorizations,
               NEW max \in Prices, NEW rev, _createAuthorizedOffer(id, a, max, rev)
        PROVE  Solvent'
    BY <2>2, CreateSolvent DEF _createAuthorizedOffer
  <2>3. ASSUME NEW id \in OfferIds, NEW a \in SaleAuthorizations,
               NEW max \in Prices, createAuthorizedOffer(id, a, max)
        PROVE  Solvent'
    BY <2>2, <2>3 DEF createAuthorizedOffer
  <2>4. ASSUME NEW id \in OfferIds, NEW a \in SaleAuthorizations,
               NEW max \in Prices, NEW v \in signedReviews,
               createReviewedAuthorizedOffer(id, a, max, v)
        PROVE  Solvent'
    BY <2>2, <2>4 DEF createReviewedAuthorizedOffer
  <2>. QED
    BY <1>2, <2>1, <2>3, <2>4 DEF Funding
<1>3. CASE Settlement
  <2>1. ASSUME NEW id \in OfferIds, _refund(id) PROVE Solvent'
    BY <2>1, TotalsAreAmounts
       DEF _refund, ReleaseEscrow, Solvent, Typed, TypeOK, MoneyTyped
  <2>2. ASSUME NEW id \in OfferIds, finalize(id) PROVE Solvent'
    BY <2>2, TotalsAreAmounts
       DEF finalize, ReleaseEscrow, Solvent, Typed, TypeOK, MoneyTyped
  <2>3. ASSUME NEW a \in Accounts, _claim(a) PROVE Solvent'
    BY <2>3 DEF _claim, Solvent, Typed, TypeOK, MoneyTyped
  <2>4. ASSUME NEW id \in OfferIds, acceptOffer(id) \/ markDelivered(id)
        PROVE  Solvent'
    BY <1>1, <2>4 DEF acceptOffer, markDelivered
  <2>. QED
    BY <1>3, <2>1, <2>2, <2>3, <2>4
       DEF Settlement, refundExpired, cancelOffer, refundUndelivered
<1>4. CASE Disputes
  <2>1. ASSUME NEW id \in OfferIds, NEW c, _adjudicateBuyerWin(id, c)
        PROVE  Solvent'
    <3>. DEFINE total == Total(offers[id])
                half == total \div 2
    <3>1. total \in Nat /\ half \in Nat
      BY TotalsAreAmounts
    <3>2. /\ escrowLiability' = escrowLiability - total
          /\ claimLiability' = claimLiability + half
          /\ balance' = balance - (total - half)
      BY <2>1 DEF _adjudicateBuyerWin, ReleaseEscrow
    <3>. HIDE DEF total, half
    <3>. QED
      BY <3>1, <3>2 DEF Solvent, Typed, TypeOK, MoneyTyped
  <2>2. ASSUME NEW id \in OfferIds,
               \/ dispute(id) \/ respondToDispute(id)
               \/ waiveDisputeResponseWindow(id) \/ finalizeExpiredDispute(id)
        PROVE  Solvent'
    BY <1>1, <2>2 DEF dispute, respondToDispute, waiveDisputeResponseWindow,
                      finalizeExpiredDispute, _adjudicateUphold
  <2>3. ASSUME NEW id \in OfferIds, NEW r \in Reviewers,
               NEW d \in {"Uphold", "BuyerWins"}, voteDispute(id, r, d)
        PROVE  Solvent'
    <3>1. (\E c : _adjudicateBuyerWin(id, c)) \/ UNCHANGED money
      BY <2>3 DEF voteDispute, _adjudicateUphold
    <3>. QED
      BY <1>1, <2>1, <3>1
  <2>. QED
    BY <1>4, <2>2, <2>3 DEF Disputes
<1>5. CASE Reviewing \/ Consenting \/ Governing \/ Environment \/ UNCHANGED vars
  <2>1. UNCHANGED money
    BY <1>5 DEF Reviewing, reviewOffer, signIndependentReview, Consenting,
       revokeSaleAuthorization, registerReferrer, Governing, queueGovernance,
       cancelGovernance, executeOperator, executeTariff, pause, unpause,
       bindFeeDiscounts, Environment, holdingsChange, Tick, vars
  <2>. QED
    BY <1>1, <2>1
<1>. QED
  BY <1>2, <1>3, <1>4, <1>5 DEF Next

(* The market's tokens are always exactly what it owes to open offers and  *)
(* to unpaid claims.                                                       *)
THEOREM MarketIsSolvent == Spec => []Solvent
<1>1. Init => Solvent
  BY DEF Init, Solvent
<1>2. Typed /\ Typed' /\ Solvent /\ [Next]_vars => Solvent'
  BY StepSolvent
<1>. QED
  BY <1>1, <1>2, AlwaysTyped, PTL DEF Spec

-----------------------------------------------------------------------------
(* Disputes.  A step of the market leaves a sale's case alone and moves    *)
(* the sale forward, or is one of the five calls on the case.              *)

SameDeal(id) ==
    /\ offers'[id].seller = offers[id].seller
    /\ offers'[id].referrer = offers[id].referrer
    /\ offers'[id].independent = offers[id].independent
    /\ offers'[id].treasury = offers[id].treasury
    /\ offers'[id].issuedAt = offers[id].issuedAt
    /\ offers'[id].gross = offers[id].gross
    /\ offers'[id].sellerAmount = offers[id].sellerAmount
    /\ offers'[id].referralAmount = offers[id].referralAmount
    /\ offers'[id].buyerDiscount = offers[id].buyerDiscount

Forward == {<<"Offered", "Accepted">>, <<"Offered", "Refunded">>,
            <<"Accepted", "Delivered">>, <<"Accepted", "Refunded">>,
            <<"Delivered", "Finalized">>}

SaleMoves(id) ==
    /\ disputeCases'[id] = disputeCases[id]
    /\ \/ offers'[id] = offers[id]
       \/ /\ offers[id].status = "None" /\ offers'[id].status \in {"Offered", "Accepted"}
          /\ Funding
       \/ SameDeal(id) /\ <<offers[id].status, offers'[id].status>> \in Forward

CaseMoves(id) ==
    \/ dispute(id) \/ respondToDispute(id) \/ waiveDisputeResponseWindow(id)
    \/ \E r \in Reviewers, d \in {"Uphold", "BuyerWins"} : voteDispute(id, r, d)
    \/ finalizeExpiredDispute(id)

(* The clock never runs back, and each sale moves in one of the two ways.  *)
LEMMA EverySaleMoves ==
    ASSUME Typed, [Next]_vars, NEW id \in OfferIds
    PROVE  now' >= now /\ (SaleMoves(id) \/ CaseMoves(id))
<1>. USE DEF SaleMoves
<1>0. /\ offers \in [OfferIds -> OfferType] /\ disputeCases \in [OfferIds -> CaseType]
      /\ now \in Nat
  BY DEF Typed, TypeOK, SalesTyped
<1>1. ASSUME NEW i \in OfferIds, NEW seller, NEW gross, NEW max, NEW reviewed, NEW o,
             o.status \in {"Offered", "Accepted"}, Funding,
             _createOffer(i, seller, gross, max, reviewed, o)
      PROVE  now' >= now /\ SaleMoves(id)
  BY <1>0, <1>1 DEF _createOffer
<1>2. CASE Funding
  <2>1. ASSUME NEW i \in OfferIds, NEW sel \in Sellers, NEW m \in Materials,
               NEW g \in Prices, NEW max \in Prices, createOffer(i, sel, m, g, max)
        PROVE  now' >= now /\ SaleMoves(id)
    <3>1. \A rev : FundedOffer(i, sel, m, g, rev).status = "Offered"
      BY DEF FundedOffer, NoOffer
    <3>. QED
      BY <1>1, <1>2, <2>1, <3>1 DEF createOffer
  <2>2. ASSUME NEW i \in OfferIds, NEW a \in SaleAuthorizations,
               NEW max \in Prices, NEW rev, _createAuthorizedOffer(i, a, max, rev)
        PROVE  now' >= now /\ SaleMoves(id)
    <3>. DEFINE o == [FundedOffer(i, a.seller, a.material, a.gross, rev)
                        EXCEPT !.status = "Accepted", !.acceptedAt = now]
    <3>1. o.status = "Accepted"
      BY DEF FundedOffer, NoOffer
    <3>2. _createOffer(i, a.seller, a.gross, max, rev, o)
      BY <2>2 DEF _createAuthorizedOffer
    <3>. HIDE DEF o
    <3>. QED
      BY <1>1, <1>2, <3>1, <3>2
  <2>3. ASSUME NEW i \in OfferIds, NEW a \in SaleAuthorizations,
               NEW max \in Prices, createAuthorizedOffer(i, a, max)
        PROVE  now' >= now /\ SaleMoves(id)
    BY <2>2, <2>3 DEF createAuthorizedOffer
  <2>4. ASSUME NEW i \in OfferIds, NEW a \in SaleAuthorizations,
               NEW max \in Prices, NEW v \in signedReviews,
               createReviewedAuthorizedOffer(i, a, max, v)
        PROVE  now' >= now /\ SaleMoves(id)
    BY <2>2, <2>4 DEF createReviewedAuthorizedOffer
  <2>. QED
    BY <1>2, <2>1, <2>3, <2>4 DEF Funding
<1>3. CASE Settlement
  <2>. USE DEF SameDeal, Forward
  <2>1. ASSUME NEW i \in OfferIds, acceptOffer(i)
        PROVE  now' >= now /\ SaleMoves(id)
    BY <1>0, <2>1 DEF acceptOffer, OfferType
  <2>2. ASSUME NEW i \in OfferIds, markDelivered(i)
        PROVE  now' >= now /\ SaleMoves(id)
    BY <1>0, <2>2 DEF markDelivered, OfferType
  <2>3. ASSUME NEW i \in OfferIds, finalize(i)
        PROVE  now' >= now /\ SaleMoves(id)
    BY <1>0, <2>3 DEF finalize, OfferType
  <2>4. ASSUME NEW i \in OfferIds, _refund(i), offers[i].status \in {"Offered", "Accepted"}
        PROVE  now' >= now /\ SaleMoves(id)
    BY <1>0, <2>4 DEF _refund, OfferType
  <2>5. ASSUME NEW a \in Accounts, _claim(a)
        PROVE  now' >= now /\ SaleMoves(id)
    BY <1>0, <2>5 DEF _claim, sales
  <2>. QED
    BY <1>3, <2>1, <2>2, <2>3, <2>4, <2>5
       DEF Settlement, refundExpired, cancelOffer, refundUndelivered
<1>4. CASE Disputes
  <2>1. PICK i \in OfferIds : CaseMoves(i)
    BY <1>4 DEF Disputes, CaseMoves
  <2>2. now' = now
    BY <2>1 DEF CaseMoves, dispute, respondToDispute, waiveDisputeResponseWindow,
                voteDispute, finalizeExpiredDispute
  <2>3. ASSUME i # id
        PROVE  disputeCases'[id] = disputeCases[id] /\ offers'[id] = offers[id]
    <3>1. CASE dispute(i) \/ respondToDispute(i) \/ waiveDisputeResponseWindow(i)
      BY <1>0, <2>3, <3>1 DEF dispute, respondToDispute, waiveDisputeResponseWindow
    <3>2. ASSUME NEW c, _adjudicateBuyerWin(i, c) \/ _adjudicateUphold(i, c)
          PROVE  disputeCases'[id] = disputeCases[id] /\ offers'[id] = offers[id]
      BY <1>0, <2>3, <3>2 DEF _adjudicateBuyerWin, _adjudicateUphold
    <3>3. CASE finalizeExpiredDispute(i)
      BY <3>2, <3>3 DEF finalizeExpiredDispute
    <3>4. ASSUME NEW r \in Reviewers, NEW d \in {"Uphold", "BuyerWins"},
                 voteDispute(i, r, d)
          PROVE  disputeCases'[id] = disputeCases[id] /\ offers'[id] = offers[id]
      <4>1. \/ \E c : _adjudicateBuyerWin(i, c) \/ _adjudicateUphold(i, c)
            \/ (\E c : disputeCases' = [disputeCases EXCEPT ![i] = c]) /\ UNCHANGED offers
        BY <3>4 DEF voteDispute
      <4>. QED
        BY <1>0, <2>3, <3>2, <4>1
    <3>. QED
      BY <2>1, <3>1, <3>3, <3>4 DEF CaseMoves
  <2>. QED
    BY <1>0, <2>1, <2>2, <2>3
<1>5. CASE Reviewing \/ Consenting \/ Governing \/ Environment \/ UNCHANGED vars
  <2>1. UNCHANGED sales /\ now' \in {now, now + 1}
    <3>1. CASE Reviewing
      BY <3>1 DEF Reviewing, reviewOffer, signIndependentReview
    <3>2. CASE Consenting
      BY <3>2 DEF Consenting, revokeSaleAuthorization, registerReferrer
    <3>3. CASE Governing
      BY <3>3 DEF Governing, queueGovernance, cancelGovernance, executeOperator,
                  executeTariff, pause, unpause, bindFeeDiscounts
    <3>4. CASE Environment
      BY <3>4 DEF Environment, holdingsChange, Tick
    <3>. QED
      BY <1>5, <3>1, <3>2, <3>3, <3>4 DEF vars
  <2>. QED
    BY <1>0, <2>1 DEF sales
<1>. QED
  BY <1>2, <1>3, <1>4, <1>5 DEF Next

LEMMA SaleMovesKeepCases ==
    ASSUME Typed, NEW id \in OfferIds, SaleMoves(id), now' >= now, Typed',
           CaseMatches(id), Heard(id)
    PROVE  CaseMatches(id)' /\ Heard(id)'
<1>1. offers[id] \in OfferType /\ disputeCases[id] \in CaseType /\ now \in Nat /\ now' \in Nat
  BY DEF Typed, TypeOK, SalesTyped
<1>2. CASE offers'[id] = offers[id]
  BY <1>1, <1>2 DEF SaleMoves, CaseMatches, Heard, CaseType
<1>3. CASE offers[id].status = "None"
  <2>1. disputeCases[id].openedAt = 0
    BY <1>1, <1>3 DEF CaseMatches, CaseType, Decisions
  <2>. QED
    BY <1>3, <2>1 DEF SaleMoves, CaseMatches, Heard, SameDeal, Forward
<1>4. CASE SameDeal(id) /\ <<offers[id].status, offers'[id].status>> \in Forward
  <2>1. CaseMatches(id)'
    BY <1>1, <1>4 DEF SaleMoves, CaseMatches, SameDeal, Forward, CaseType, Decisions
  <2>2. Heard(id)'
    BY <1>1, <1>4 DEF SaleMoves, Heard, SameDeal, CaseType
  <2>. QED
    BY <2>1, <2>2
<1>. QED
  BY <1>2, <1>3, <1>4 DEF SaleMoves

(* What a call on a case does to the case and to its offer.                *)
LEMMA CaseMovesAre ==
    ASSUME Typed, NEW id \in OfferIds, CaseMoves(id)
    PROVE  LET c == disputeCases[id] d == disputeCases'[id] IN
           /\ now' = now /\ SameDeal(id)
           /\ offers[id].status \in {"Delivered", "Disputed"}
           /\ offers[id].status = "Delivered" =>
                 /\ c.openedAt = 0 /\ offers[id].independent /\ ~offers[id].treasury
                 /\ offers'[id].status = "Disputed"
                 /\ d.openedAt = now /\ d.outcome = "None"
                 /\ d.voteStartsAt = now + SellerResponseWindow
                 /\ d.voteEndsAt = now + SellerResponseWindow + DisputeVoteWindow
                 /\ \A r \in Reviewers : d.votes[r] = "None"
           /\ offers[id].status = "Disputed" =>
                 /\ d.openedAt = c.openedAt
                 /\ \/ offers'[id].status = "Disputed" /\ d.outcome = c.outcome
                    \/ offers'[id].status = "Refunded" /\ d.outcome = "BuyerWins"
                    \/ offers'[id].status = "Delivered" /\ d.outcome = "Uphold"
                 /\ c.responded => d.responded
                 /\ \/ d.voteStartsAt = c.voteStartsAt /\ d.voteEndsAt = c.voteEndsAt
                    \/ /\ d.responded /\ d.voteStartsAt = now
                       /\ d.voteEndsAt = now + DisputeVoteWindow
                 /\ \A r \in Reviewers : d.votes[r] # "None" =>
                       \/ c.votes[r] # "None"
                       \/ /\ c.voteStartsAt <= now /\ d.voteStartsAt = c.voteStartsAt
                          /\ r \notin {id[1], offers[id].seller, offers[id].referrer}
<1>. DEFINE c == disputeCases[id]
<1>0. /\ offers \in [OfferIds -> OfferType] /\ disputeCases \in [OfferIds -> CaseType]
      /\ c \in CaseType /\ offers[id] \in OfferType /\ now \in Nat
  BY DEF Typed, TypeOK, SalesTyped
<1>1. CASE dispute(id)
  <2>. DEFINE e == [NoCase EXCEPT !.openedAt = now,
            !.voteStartsAt = now + SellerResponseWindow,
            !.voteEndsAt = now + SellerResponseWindow + DisputeVoteWindow]
  <2>1. /\ e.openedAt = now /\ e.outcome = "None"
        /\ e.voteStartsAt = now + SellerResponseWindow
        /\ e.voteEndsAt = now + SellerResponseWindow + DisputeVoteWindow
        /\ \A r \in Reviewers : e.votes[r] = "None"
    BY DEF NoCase
  <2>2. disputeCases'[id] = e /\ now' = now /\ MayDispute(id)
        /\ offers' = [offers EXCEPT ![id].status = "Disputed"]
    BY <1>0, <1>1 DEF dispute
  <2>. HIDE DEF e
  <2>3. offers'[id].status = "Disputed" /\ SameDeal(id)
    BY <1>0, <2>2 DEF OfferType, SameDeal
  <2>. QED
    BY <2>1, <2>2, <2>3 DEF MayDispute
<1>2. CASE respondToDispute(id)
  BY <1>0, <1>2 DEF respondToDispute, CaseType, SameDeal
<1>3. CASE waiveDisputeResponseWindow(id)
  BY <1>0, <1>3 DEF waiveDisputeResponseWindow, MayWaive, CaseType, SameDeal
<1>4. ASSUME NEW e \in CaseType, _adjudicateUphold(id, e) \/ _adjudicateBuyerWin(id, e)
      PROVE  /\ disputeCases'[id].openedAt = e.openedAt
             /\ disputeCases'[id].responded = e.responded
             /\ disputeCases'[id].voteStartsAt = e.voteStartsAt
             /\ disputeCases'[id].voteEndsAt = e.voteEndsAt
             /\ disputeCases'[id].votes = e.votes
             /\ \/ offers'[id].status = "Refunded" /\ disputeCases'[id].outcome = "BuyerWins"
                \/ offers'[id].status = "Delivered" /\ disputeCases'[id].outcome = "Uphold"
             /\ SameDeal(id)
  BY <1>0, <1>4 DEF _adjudicateUphold, _adjudicateBuyerWin, CaseType, OfferType, SameDeal
<1>5. CASE finalizeExpiredDispute(id)
  BY <1>0, <1>4, <1>5 DEF finalizeExpiredDispute
<1>6. ASSUME NEW r \in Reviewers, NEW d \in {"Uphold", "BuyerWins"}, voteDispute(id, r, d)
      PROVE  LET n == disputeCases'[id] IN
             /\ now' = now /\ SameDeal(id) /\ offers[id].status = "Disputed"
             /\ n.openedAt = c.openedAt /\ n.responded = c.responded
             /\ n.voteStartsAt = c.voteStartsAt /\ n.voteEndsAt = c.voteEndsAt
             /\ \/ offers'[id].status = "Disputed" /\ n.outcome = c.outcome
                \/ offers'[id].status = "Refunded" /\ n.outcome = "BuyerWins"
                \/ offers'[id].status = "Delivered" /\ n.outcome = "Uphold"
             /\ c.voteStartsAt <= now
             /\ r \notin {id[1], offers[id].seller, offers[id].referrer}
             /\ n.votes = [c.votes EXCEPT ![r] = d]
  <2>. DEFINE e == [disputeCases[id] EXCEPT !.votes[r] = d,
                      !.buyerVotes = IF d = "BuyerWins" THEN @ + 1 ELSE @,
                      !.upholdVotes = IF d = "Uphold" THEN @ + 1 ELSE @]
  <2>1. e \in CaseType
    BY <1>0, CastVoteTyped DEF Decisions
  <2>2. /\ e.openedAt = c.openedAt /\ e.responded = c.responded /\ e.outcome = c.outcome
        /\ e.voteStartsAt = c.voteStartsAt /\ e.voteEndsAt = c.voteEndsAt
        /\ e.votes = [c.votes EXCEPT ![r] = d]
    BY <1>0 DEF CaseType
  <2>3. /\ \/ _adjudicateBuyerWin(id, e)
           \/ _adjudicateUphold(id, e)
           \/ disputeCases' = [disputeCases EXCEPT ![id] = e] /\ UNCHANGED offers
        /\ now' = now /\ offers[id].status = "Disputed" /\ c.voteStartsAt <= now
        /\ r \notin {id[1], offers[id].seller, offers[id].referrer}
    BY <1>6 DEF voteDispute
  <2>. HIDE DEF e, c
  <2>4. CASE _adjudicateBuyerWin(id, e) \/ _adjudicateUphold(id, e)
    BY <1>4, <2>1, <2>2, <2>3, <2>4
  <2>5. CASE disputeCases' = [disputeCases EXCEPT ![id] = e] /\ UNCHANGED offers
    BY <1>0, <2>2, <2>3, <2>5 DEF SameDeal
  <2>. QED
    BY <2>3, <2>4, <2>5
<1>7. ASSUME NEW r \in Reviewers, NEW d \in {"Uphold", "BuyerWins"}, voteDispute(id, r, d),
             NEW q \in Reviewers, disputeCases'[id].votes[q] # "None"
      PROVE  c.votes[q] # "None" \/ q = r
  BY <1>0, <1>6, <1>7 DEF CaseType
<1>. QED
  BY <1>1, <1>2, <1>3, <1>5, <1>6, <1>7 DEF CaseMoves

LEMMA CaseMovesKeepCases ==
    ASSUME Typed, NEW id \in OfferIds, CaseMoves(id), Typed',
           CaseMatches(id), Heard(id)
    PROVE  CaseMatches(id)' /\ Heard(id)'
<1>. DEFINE c == disputeCases[id]
            d == disputeCases'[id]
<1>1. /\ c \in CaseType /\ d \in CaseType /\ now \in Nat /\ now >= 1
      /\ SellerResponseWindow \in Nat /\ DisputeVoteWindow \in Nat
  BY WindowsAssumption DEF Windows, Typed, TypeOK, SalesTyped
<1>2. CASE offers[id].status = "Delivered"
  <2>1. CaseMatches(id)'
    BY <1>1, <1>2, CaseMovesAre DEF CaseMatches, SameDeal
  <2>2. Heard(id)'
    BY <1>1, <1>2, CaseMovesAre DEF Heard, CaseType
  <2>. QED
    BY <2>1, <2>2
<1>3. CASE offers[id].status = "Disputed"
  <2>1. c.openedAt # 0 /\ d.openedAt = c.openedAt
    BY <1>3, CaseMovesAre DEF CaseMatches
  <2>2. CaseMatches(id)'
    BY <1>1, <1>3, <2>1, CaseMovesAre DEF CaseMatches, SameDeal
  <2>3. /\ d.voteStartsAt < d.openedAt + SellerResponseWindow => d.responded
        /\ d.voteEndsAt = d.voteStartsAt + DisputeVoteWindow
    BY <1>1, <1>3, <2>1, CaseMovesAre DEF Heard, CaseType
  <2>4. ASSUME NEW r \in Reviewers, d.votes[r] # "None"
        PROVE  /\ now >= d.voteStartsAt
               /\ r \notin {id[1], offers[id].seller, offers[id].referrer}
    BY <1>1, <1>3, <2>1, <2>4, CaseMovesAre DEF Heard, CaseType
  <2>5. now' = now /\ SameDeal(id)
    BY CaseMovesAre
  <2>. QED
    BY <2>2, <2>3, <2>4, <2>5 DEF Heard, SameDeal
<1>. QED
  BY <1>2, <1>3, CaseMovesAre

CasesKept == CaseMatchesOffer /\ SellerIsHeard

LEMMA StepKeepsCases ==
    ASSUME Typed, Typed', CasesKept, [Next]_vars
    PROVE  CasesKept'
<1>1. ASSUME NEW id \in OfferIds
      PROVE  CaseMatches(id)' /\ Heard(id)'
  <2>1. CaseMatches(id) /\ Heard(id)
    BY DEF CasesKept, CaseMatchesOffer, SellerIsHeard
  <2>. QED
    BY <2>1, EverySaleMoves, SaleMovesKeepCases, CaseMovesKeepCases
<1>. QED
  BY <1>1 DEF CasesKept, CaseMatchesOffer, SellerIsHeard

LEMMA AlwaysCasesKept == Spec => []CasesKept
<1>1. Init => CasesKept
  BY DEF Init, CasesKept, CaseMatchesOffer, SellerIsHeard, CaseMatches, Heard,
         NoOffer, NoCase
<1>2. Typed /\ Typed' /\ CasesKept /\ [Next]_vars => CasesKept'
  BY StepKeepsCases
<1>. QED
  BY <1>1, <1>2, AlwaysTyped, PTL DEF Spec

(* An open dispute is an undecided one, and a decided sale stays decided   *)
(* the way it was ruled: refunded, or only ever to be finalized.           *)
THEOREM CasesMatchOffers == Spec => []CaseMatchesOffer
<1>1. CasesKept => CaseMatchesOffer
  BY DEF CasesKept
<1>. QED
  BY <1>1, AlwaysCasesKept, PTL

(* The seller has the response window, or answered and waived it, before   *)
(* any vote; no reviewer who is a party to the sale votes on it.           *)
THEOREM SellersAreHeard == Spec => []SellerIsHeard
<1>1. CasesKept => SellerIsHeard
  BY DEF CasesKept
<1>. QED
  BY <1>1, AlwaysCasesKept, PTL

(* No step changes a case that has an outcome, or disputes its sale again. *)
THEOREM NoRulingIsReopened == Spec => RulingsAreFinal
<1>. DEFINE Final == \A id \in OfferIds : disputeCases[id].outcome # "None" =>
                        /\ disputeCases'[id] = disputeCases[id]
                        /\ offers'[id].status # "Disputed"
<1>1. ASSUME Typed, CasesKept, [Next]_vars, NEW id \in OfferIds,
             disputeCases[id].outcome # "None"
      PROVE  disputeCases'[id] = disputeCases[id] /\ offers'[id].status # "Disputed"
  <2>1. /\ offers[id].status \in {"Refunded", "Delivered", "Finalized"}
        /\ disputeCases[id].openedAt # 0
    BY <1>1 DEF CasesKept, CaseMatchesOffer, CaseMatches, Typed, TypeOK, SalesTyped,
                CaseType, Decisions
  <2>2. ~CaseMoves(id)
    BY <1>1, <2>1, CaseMovesAre
  <2>3. SaleMoves(id)
    BY <1>1, <2>2, EverySaleMoves
  <2>. QED
    BY <2>1, <2>3 DEF SaleMoves, Forward
<1>2. Typed /\ CasesKept /\ [Next]_vars => [Final]_vars
  BY <1>1
<1>3. RulingsAreFinal <=> [][Final]_vars
  BY DEF RulingsAreFinal
<1>. QED
  BY <1>2, <1>3, AlwaysTyped, AlwaysCasesKept, PTL DEF Spec
-----------------------------------------------------------------------------
(* Tallies.                                                                *)

(* A vote more for d is a vote more for d, and for nothing else.           *)
OneMore(e, c, d) ==
    /\ Votes(e, d) = Votes(c, d) + 1
    /\ \A x \in {"Uphold", "BuyerWins"} : x # d => Votes(e, x) = Votes(c, x)

FirstVote(e, c, r, d) ==
    /\ c.votes[r] = "None" /\ e.votes[r] = d
    /\ \A q \in Reviewers \ {r} : e.votes[q] = c.votes[q]

LEMMA VotesGrow ==
    ASSUME NEW c \in CaseType, NEW r \in Reviewers,
           NEW d \in {"Uphold", "BuyerWins"}, NEW e, FirstVote(e, c, r, d)
    PROVE  OneMore(e, c, d)
<1>. USE DEF FirstVote
<1>. DEFINE For(x) == {q \in Reviewers : c.votes[q] = x}
<1>1. c.votes \in [Reviewers -> Decisions]
  BY DEF CaseType
<1>2. {q \in Reviewers : e.votes[q] = d} = For(d) \cup {r}
  BY <1>1
<1>3. \A x \in {"Uphold", "BuyerWins"} : x # d => {q \in Reviewers : e.votes[q] = x} = For(x)
  BY <1>1
<1>4. IsFiniteSet(For(d)) /\ r \notin For(d)
  <2>1. For(d) \subseteq Reviewers
    OBVIOUS
  <2>2. IsFiniteSet(Reviewers)
    BY AccountsAssumption
  <2>3. IsFiniteSet(For(d))
    BY <2>1, <2>2, FS_Subset
  <2>. QED
    BY <2>3
<1>5. Cardinality(For(d) \cup {r}) = Cardinality(For(d)) + 1
  BY <1>4, FS_AddElement
<1>. QED
  BY <1>2, <1>3, <1>5 DEF OneMore, Votes

LEMMA NoVotesYet == \A t : Tallied(NoCase, t)
<1>1. {r \in Reviewers : NoCase.votes[r] = "BuyerWins"} = {}
  BY DEF NoCase
<1>2. {r \in Reviewers : NoCase.votes[r] = "Uphold"} = {}
  BY DEF NoCase
<1>3. Cardinality({}) = 0
  BY FS_EmptySet
<1>4. Votes(NoCase, "BuyerWins") = 0 /\ Votes(NoCase, "Uphold") = 0
  BY <1>1, <1>2, <1>3 DEF Votes
<1>5. NoCase.buyerVotes = 0 /\ NoCase.upholdVotes = 0 /\ NoCase.outcome = "None"
  BY DEF NoCase
<1>. QED
  BY <1>4, <1>5, WindowsAssumption DEF Tallied

(* What is asked of a case depends on its votes, tallies and outcome.      *)
LEMMA TalliesStay ==
    ASSUME NEW c, NEW d, NEW t \in Nat, NEW u \in Nat, Tallied(c, t), d.votes = c.votes, d.outcome = c.outcome,
           d.buyerVotes = c.buyerVotes, d.upholdVotes = c.upholdVotes,
           u >= t, c.voteEndsAt \in Nat,
           d.voteEndsAt = c.voteEndsAt \/ c.outcome # "Uphold"
    PROVE  Tallied(d, u)
<1>1. Votes(d, "BuyerWins") = Votes(c, "BuyerWins") /\ Votes(d, "Uphold") = Votes(c, "Uphold")
  BY DEF Votes
<1>. QED
  BY <1>1 DEF Tallied

(* Each call on a case keeps its tallies those of its votes, and decides   *)
(* it only by a quorum or after the vote window.                           *)
LEMMA CaseMovesTally ==
    ASSUME Typed, Typed', NEW id \in OfferIds, CaseMatches(id), Tallied(disputeCases[id], now),
           CaseMoves(id)
    PROVE  Tallied(disputeCases[id], now)'
<1>. DEFINE c == disputeCases[id]
            T == DisputeThreshold
<1>0. /\ disputeCases \in [OfferIds -> CaseType] /\ c \in CaseType /\ now \in Nat /\ now' \in Nat
      /\ c.buyerVotes \in Nat /\ c.upholdVotes \in Nat /\ c.voteEndsAt \in Nat /\ T \in Nat
  BY WindowsAssumption DEF Typed, TypeOK, SalesTyped, CaseType
<1>1. CASE dispute(id)
  <2>. DEFINE e == [NoCase EXCEPT !.openedAt = now,
            !.voteStartsAt = now + SellerResponseWindow,
            !.voteEndsAt = now + SellerResponseWindow + DisputeVoteWindow]
  <2>1. /\ e.votes = NoCase.votes /\ e.outcome = NoCase.outcome /\ NoCase.outcome = "None"
        /\ e.buyerVotes = NoCase.buyerVotes /\ e.upholdVotes = NoCase.upholdVotes
        /\ NoCase.voteEndsAt = 0
    BY DEF NoCase
  <2>2. disputeCases'[id] = e /\ now' = now
    BY <1>0, <1>1 DEF dispute
  <2>. HIDE DEF e
  <2>3. Tallied(NoCase, now) /\ NoCase.voteEndsAt \in Nat
    BY <2>1, NoVotesYet
  <2>4. Tallied(e, now)
    BY <1>0, <2>1, <2>3, TalliesStay
  <2>. QED
    BY <2>2, <2>4
<1>2. ASSUME NEW e \in CaseType, disputeCases'[id] = e, now' = now,
             e.votes = c.votes, e.outcome = c.outcome,
             e.buyerVotes = c.buyerVotes, e.upholdVotes = c.upholdVotes,
             e.voteEndsAt = c.voteEndsAt \/ c.outcome # "Uphold"
      PROVE  Tallied(disputeCases[id], now)'
  <2>1. Tallied(e, now)
    BY <1>0, <1>2, TalliesStay
  <2>. QED
    BY <1>2, <2>1
<1>3. CASE respondToDispute(id)
  <2>. DEFINE e == [c EXCEPT !.responded = TRUE]
  <2>1. disputeCases'[id] = e /\ now' = now
    BY <1>0, <1>3 DEF respondToDispute
  <2>2. /\ e \in CaseType /\ e.votes = c.votes /\ e.outcome = c.outcome
        /\ e.buyerVotes = c.buyerVotes /\ e.upholdVotes = c.upholdVotes
        /\ e.voteEndsAt = c.voteEndsAt
    BY <1>0 DEF CaseType
  <2>. QED
    BY <1>2, <2>1, <2>2
<1>4. CASE waiveDisputeResponseWindow(id)
  <2>. DEFINE e == [c EXCEPT !.voteStartsAt = now, !.voteEndsAt = now + DisputeVoteWindow]
  <2>1. disputeCases'[id] = e /\ now' = now /\ c.outcome = "None"
    BY <1>0, <1>4 DEF waiveDisputeResponseWindow, MayWaive
  <2>2. DisputeVoteWindow \in Nat
    BY WindowsAssumption DEF Windows
  <2>3. e \in CaseType
    <3>1. now + DisputeVoteWindow \in Nat /\ "None" \in Decisions
      BY <1>0, <2>2 DEF Decisions
    <3>. QED
      BY <1>0, <3>1, CaseUpdates
  <2>4. /\ e.votes = c.votes /\ e.outcome = c.outcome
        /\ e.buyerVotes = c.buyerVotes /\ e.upholdVotes = c.upholdVotes
    BY <1>0 DEF CaseType
  <2>. QED
    BY <1>2, <2>1, <2>3, <2>4
<1>5. ASSUME NEW e \in CaseType, now' = now, e.outcome = "None",
             e.buyerVotes = Votes(e, "BuyerWins"), e.upholdVotes = Votes(e, "Uphold"),
             \/ /\ e.buyerVotes >= T
                /\ disputeCases'[id] = [e EXCEPT !.outcome = "BuyerWins"]
             \/ /\ ~(e.buyerVotes >= T) /\ (e.upholdVotes >= T \/ now >= e.voteEndsAt)
                /\ disputeCases'[id] = [e EXCEPT !.outcome = "Uphold"]
             \/ ~(e.buyerVotes >= T) /\ disputeCases'[id] = e
      PROVE  Tallied(disputeCases[id], now)'
  <2>. DEFINE d == disputeCases'[id]
  <2>1. /\ d.votes = e.votes /\ d.buyerVotes = e.buyerVotes /\ d.upholdVotes = e.upholdVotes
        /\ d.voteEndsAt = e.voteEndsAt
        /\ \/ d.outcome = "BuyerWins" /\ e.buyerVotes >= T
           \/ /\ d.outcome = "Uphold" /\ ~(e.buyerVotes >= T)
              /\ e.upholdVotes >= T \/ now >= e.voteEndsAt
           \/ d.outcome = "None" /\ ~(e.buyerVotes >= T)
    BY <1>5 DEF CaseType
  <2>2. Votes(d, "BuyerWins") = Votes(e, "BuyerWins") /\ Votes(d, "Uphold") = Votes(e, "Uphold")
    BY <2>1 DEF Votes
  <2>. HIDE DEF d
  <2>3. /\ d.buyerVotes = Votes(d, "BuyerWins") /\ d.upholdVotes = Votes(d, "Uphold")
        /\ d.outcome = "BuyerWins" <=> d.buyerVotes >= T
        /\ d.outcome = "Uphold" => d.upholdVotes >= T \/ now' >= d.voteEndsAt
    BY <1>5, <2>1, <2>2
  <2>. QED
    BY <2>3 DEF Tallied, d
<1>6. c.outcome = "None" => ~(c.buyerVotes >= T)
  BY DEF Tallied
<1>7. CASE finalizeExpiredDispute(id)
  <2>1. /\ now' = now /\ c.outcome = "None" /\ now >= c.voteEndsAt
        /\ disputeCases'[id] = [c EXCEPT !.outcome = "Uphold"]
    BY <1>0, <1>7 DEF finalizeExpiredDispute, _adjudicateUphold
  <2>. QED
    BY <1>0, <1>5, <1>6, <2>1 DEF Tallied
<1>8. ASSUME NEW r \in Reviewers, NEW x \in {"Uphold", "BuyerWins"}, voteDispute(id, r, x)
      PROVE  Tallied(disputeCases[id], now)'
  <2>. DEFINE e == [disputeCases[id] EXCEPT !.votes[r] = x,
                      !.buyerVotes = IF x = "BuyerWins" THEN @ + 1 ELSE @,
                      !.upholdVotes = IF x = "Uphold" THEN @ + 1 ELSE @]
  <2>1. e \in CaseType
    BY <1>0, CastVoteTyped DEF Decisions
  <2>2. /\ e.outcome = c.outcome /\ e.votes = [c.votes EXCEPT ![r] = x]
        /\ e.buyerVotes = IF x = "BuyerWins" THEN c.buyerVotes + 1 ELSE c.buyerVotes
        /\ e.upholdVotes = IF x = "Uphold" THEN c.upholdVotes + 1 ELSE c.upholdVotes
    BY <1>0 DEF CaseType
  <2>3. /\ \/ e.buyerVotes >= T /\ _adjudicateBuyerWin(id, e)
           \/ /\ ~(e.buyerVotes >= T) /\ e.upholdVotes >= T
              /\ _adjudicateUphold(id, e)
           \/ /\ ~(e.buyerVotes >= T)
              /\ disputeCases' = [disputeCases EXCEPT ![id] = e]
        /\ now' = now /\ c.outcome = "None" /\ c.votes[r] = "None"
    BY <1>8 DEF voteDispute, Quorum
  <2>. HIDE DEF e
  <2>4. \/ /\ e.buyerVotes >= T
           /\ disputeCases'[id] = [e EXCEPT !.outcome = "BuyerWins"]
        \/ /\ ~(e.buyerVotes >= T) /\ e.upholdVotes >= T
           /\ disputeCases'[id] = [e EXCEPT !.outcome = "Uphold"]
        \/ ~(e.buyerVotes >= T) /\ disputeCases'[id] = e
    BY <1>0, <2>3 DEF _adjudicateBuyerWin, _adjudicateUphold
  <2>5. /\ Votes(e, x) = Votes(c, x) + 1
        /\ \A y \in {"Uphold", "BuyerWins"} : y # x => Votes(e, y) = Votes(c, y)
    <3>1. c \in CaseType /\ c.votes[r] = "None" /\ e.votes = [c.votes EXCEPT ![r] = x]
      BY <1>0, <2>2, <2>3
    <3>. HIDE DEF c
    <3>2. c.votes \in [Reviewers -> Decisions]
      BY <3>1 DEF CaseType
    <3>3. e.votes[r] = x /\ \A q \in Reviewers \ {r} : e.votes[q] = c.votes[q]
      BY <3>1, <3>2
    <3>4. FirstVote(e, c, r, x)
      BY <3>1, <3>3 DEF FirstVote
    <3>5. OneMore(e, c, x)
      BY <3>1, <3>4, VotesGrow, Zenon
    <3>. QED
      BY <3>5 DEF OneMore
  <2>6. c.buyerVotes = Votes(c, "BuyerWins") /\ c.upholdVotes = Votes(c, "Uphold")
    BY DEF Tallied
  <2>7. e.buyerVotes = Votes(e, "BuyerWins") /\ e.upholdVotes = Votes(e, "Uphold")
    BY <2>2, <2>5, <2>6
  <2>. QED
    BY <1>5, <2>1, <2>2, <2>3, <2>4, <2>7
<1>. QED
  BY <1>1, <1>3, <1>4, <1>7, <1>8 DEF CaseMoves

AllTallied == \A id \in OfferIds : Tallied(disputeCases[id], now)

LEMMA StepTallies ==
    ASSUME Typed, Typed', CasesKept, AllTallied, [Next]_vars
    PROVE  AllTallied'
<1>1. ASSUME NEW id \in OfferIds
      PROVE  Tallied(disputeCases[id], now)'
  <2>1. Tallied(disputeCases[id], now) /\ CaseMatches(id)
    BY DEF AllTallied, CasesKept, CaseMatchesOffer
  <2>2. CASE SaleMoves(id)
    <3>1. disputeCases'[id] = disputeCases[id] /\ now' >= now
      BY <2>2, EverySaleMoves DEF SaleMoves
    <3>2. now \in Nat /\ now' \in Nat /\ disputeCases[id].voteEndsAt \in Nat
      BY DEF Typed, TypeOK, SalesTyped, CaseType
    <3>. QED
      BY <2>1, <3>1, <3>2, TalliesStay
  <2>3. CASE CaseMoves(id)
    BY <2>1, <2>3, CaseMovesTally
  <2>. QED
    BY <2>2, <2>3, EverySaleMoves
<1>. QED
  BY <1>1 DEF AllTallied

(* A case is decided by a quorum of votes actually cast or, without one,   *)
(* for the seller once the vote window has closed.                         *)
THEOREM OutcomesAreTheQuorums == Spec => []OutcomeIsTheQuorums
<1>1. Init => AllTallied
  BY NoVotesYet DEF Init, AllTallied
<1>2. Typed /\ Typed' /\ CasesKept /\ AllTallied /\ [Next]_vars => AllTallied'
  BY StepTallies
<1>3. CasesKept /\ AllTallied => OutcomeIsTheQuorums
  BY DEF CasesKept, AllTallied, OutcomeIsTheQuorums
<1>. QED
  BY <1>1, <1>2, <1>3, AlwaysTyped, AlwaysCasesKept, PTL DEF Spec

-----------------------------------------------------------------------------
(* Referrals.                                                              *)

(* The recursive function Ancestors is what its definition says of it.     *)
NextAncestor(g, i, referrer) ==
    IF i = 0 THEN referrer
    ELSE IF g[i - 1] = NoOne THEN NoOne
    ELSE attributions[g[i - 1]].referrer

LEMMA AncestorsWalk ==
    ASSUME NEW referrer
    PROVE  /\ Ancestors(referrer)[0] = referrer
           /\ \A i \in Nat : i + 1 <= MaxReferralDepth =>
                 Ancestors(referrer)[i + 1] = NextAncestor(Ancestors(referrer), i + 1, referrer)
<1>. DEFINE A == {n \in Nat : \E g : g = [i \in 0 .. n |-> NextAncestor(g, i, referrer)]}
<1>1. 0 \in A
  <2>. DEFINE g == [i \in 0 .. 0 |-> referrer]
  <2>1. g = [i \in 0 .. 0 |-> NextAncestor(g, i, referrer)]
    BY DEF NextAncestor
  <2>. QED
    BY <2>1
<1>2. ASSUME NEW n \in A PROVE n + 1 \in A
  <2>1. PICK g : g = [i \in 0 .. n |-> NextAncestor(g, i, referrer)]
    BY <1>2
  <2>. DEFINE h == [i \in 0 .. n + 1 |-> NextAncestor(g, i, referrer)]
  <2>2. \A i \in 0 .. n : i \in 0 .. n + 1 /\ h[i] = g[i]
    <3>1. \A i \in 0 .. n : i \in 0 .. n + 1
      OBVIOUS
    <3>2. \A i \in 0 .. n : g[i] = NextAncestor(g, i, referrer)
      BY <2>1
    <3>. QED
      BY <3>1, <3>2
  <2>3. \A i \in 0 .. n + 1 : NextAncestor(g, i, referrer) = NextAncestor(h, i, referrer)
    <3>. HIDE DEF h
    <3>1. \A i \in 0 .. n + 1 : i # 0 => i - 1 \in 0 .. n
      OBVIOUS
    <3>. QED
      BY <2>2, <3>1 DEF NextAncestor
  <2>4. h = [i \in 0 .. n + 1 |-> NextAncestor(h, i, referrer)]
    <3>1. h = [i \in 0 .. n + 1 |-> NextAncestor(g, i, referrer)]
      OBVIOUS
    <3>. HIDE DEF h
    <3>. QED
      BY <2>3, <3>1
  <2>5. \E k : k = [i \in 0 .. n + 1 |-> NextAncestor(k, i, referrer)]
    BY <2>4
  <2>. QED
    BY <2>5
<1>3. A = Nat
  <2>1. A \in SUBSET Nat /\ \A n \in A : n + 1 \in A
    BY <1>2
  <2>. HIDE DEF A
  <2>. QED
    BY <1>1, <2>1, NumberInduction
<1>4. \E g : g = [i \in 0 .. MaxReferralDepth |-> NextAncestor(g, i, referrer)]
  BY <1>3, WindowsAssumption
<1>5. Ancestors(referrer) =
        CHOOSE g : g = [i \in 0 .. MaxReferralDepth |-> NextAncestor(g, i, referrer)]
  BY DEF Ancestors, NextAncestor
<1>6. Ancestors(referrer) =
        [i \in 0 .. MaxReferralDepth |-> NextAncestor(Ancestors(referrer), i, referrer)]
  BY <1>4, <1>5
<1>. QED
  BY <1>6, WindowsAssumption DEF NextAncestor

(* The walk up from the referrer meets neither the account nor a group that *)
(* closes on itself, so the new attribution closes no circle.              *)
LEMMA RegistrationClosesNoCircle ==
    ASSUME Typed, NoReferralCycle, NEW a \in Accounts, NEW r \in Accounts,
           registerReferrer(a, r)
    PROVE  NoReferralCycle'
<1>1. /\ attributions \in [Accounts -> [referrer : Accounts \cup {NoOne}, acceptedAt : Nat]]
      /\ attributions' = [attributions EXCEPT ![a] = [referrer |-> r, acceptedAt |-> now]]
      /\ NoOne \notin Accounts /\ MaxReferralDepth \in Nat
  BY AccountsAssumption, WindowsAssumption
     DEF registerReferrer, Typed, TypeOK, ReferralTyped
<1>2. SUFFICES ASSUME NEW S \in SUBSET Accounts, S # {},
                      \A x \in S : attributions'[x].referrer # NoOne
                                   /\ attributions'[x].referrer \in S
               PROVE  FALSE
  BY DEF NoReferralCycle
<1>3. \A x \in Accounts : x # a => attributions'[x] = attributions[x]
  BY <1>1
<1>4. CASE a \notin S
  BY <1>2, <1>3, <1>4 DEF NoReferralCycle
<1>5. CASE a \in S
  <2>1. r \in S
    BY <1>1, <1>2, <1>5
  <2>. DEFINE up == Ancestors(r)
              A == {n \in Nat : n <= MaxReferralDepth => up[n] \in S}
  <2>2. up[0] = r /\ \A i \in Nat : i + 1 <= MaxReferralDepth =>
                           up[i + 1] = NextAncestor(up, i + 1, r)
    BY AncestorsWalk
  <2>3. /\ \A i \in Nat : i <= MaxReferralDepth => up[i] # a
        /\ up[MaxReferralDepth] = NoOne
    BY <1>1 DEF registerReferrer
  <2>. HIDE DEF up
  <2>4. ASSUME NEW n \in A PROVE n + 1 \in A
    <3>1. SUFFICES ASSUME n + 1 <= MaxReferralDepth PROVE up[n + 1] \in S
      OBVIOUS
    <3>2. n \in Nat /\ up[n] \in S /\ up[n] # a /\ up[n] # NoOne
      BY <1>1, <2>3, <3>1
    <3>3. up[n + 1] = attributions[up[n]].referrer
      BY <2>2, <3>1, <3>2 DEF NextAncestor
    <3>. QED
      BY <1>2, <1>3, <3>2, <3>3
  <2>5. 0 \in A
    BY <2>1, <2>2
  <2>6. A = Nat
    <3>1. A \in SUBSET Nat /\ \A n \in A : n + 1 \in A
      BY <2>4
    <3>. HIDE DEF A
    <3>. QED
      BY <2>5, <3>1, NumberInduction
  <2>. QED
    BY <1>1, <2>3, <2>6
<1>. QED
  BY <1>4, <1>5

(* What the clock of a referral rests on: nobody refers himself or the     *)
(* treasury, and the first order lies within its attribution's window.     *)
AttributionSound(a) ==
    LET t == attributions[a] IN
    t.referrer # NoOne => t.referrer \notin {a, AcquisitionVault} /\ t.acceptedAt <= now

FirstOrderSound(a) ==
    LET t == attributions[a] first == firstExternalOrderAt[a] IN
    first # 0 => /\ t.referrer # NoOne
                 /\ t.acceptedAt <= first /\ first < t.acceptedAt + ReferralActivationWindow
                 /\ first <= now

ClocksSound == \A a \in Accounts : AttributionSound(a) /\ FirstOrderSound(a)

Paid(id) == offers[id].referrer # NoOne => offers[id].seller \in Accounts

ReferralsKept ==
    /\ NoReferralCycle /\ ClocksSound
    /\ \A id \in OfferIds : Earned(id) /\ Paid(id)

(* A step that concerns referrals is a funding or a registration.          *)
Creates(id, seller, reviewed, o) ==
    /\ \E gross, max : _createOffer(id, seller, gross, max, reviewed, o)
    /\ o.seller = seller
    /\ o.referrer = IF ReferralPays(id, seller, reviewed)
                    THEN attributions[seller].referrer ELSE NoOne
    /\ o.referralAmount = IF ReferralPays(id, seller, reviewed)
                          THEN ReferralShare(tariff) ELSE 0
    /\ o.independent = (Buyer(id) # AcquisitionVault /\ reviewed)
    /\ o.issuedAt = now /\ o.status \in {"Offered", "Accepted"}

LEMMA FundingCreates ==
    ASSUME Typed, Funding
    PROVE  \E id \in OfferIds, seller \in Accounts, reviewed \in BOOLEAN, o \in OfferType :
              Creates(id, seller, reviewed, o)
<1>0. /\ now \in Nat
      /\ \A i \in OfferIds : i[1] \in Accounts
      /\ Sellers \subseteq Accounts
      /\ \A a \in SaleAuthorizations :
            a.seller \in Accounts /\ a.material \in Materials /\ a.gross \in Prices
      /\ \A g \in Prices : g \in Nat
  BY AccountsAssumption, ConsentAssumption, PricesAssumption DEF Typed, TypeOK
<1>1. ASSUME NEW i \in OfferIds, NEW sel \in Sellers, NEW m \in Materials,
             NEW g \in Prices, NEW max \in Prices, createOffer(i, sel, m, g, max)
      PROVE  \E id \in OfferIds, seller \in Accounts, reviewed \in BOOLEAN, o \in OfferType :
                Creates(id, seller, reviewed, o)
  <2>. DEFINE rev == InputDigest(i, sel, m, g) \in reviewedInputs
              o == FundedOffer(i, sel, m, g, rev)
  <2>1. _createOffer(i, sel, g, max, rev, o)
    BY <1>1 DEF createOffer
  <2>2. Creates(i, sel, rev, o)
    <3>1. /\ o.seller = sel /\ o.issuedAt = now /\ o.status = "Offered"
          /\ o.referralAmount = IF ReferralPays(i, sel, rev) THEN ReferralShare(tariff) ELSE 0
          /\ o.referrer = IF ReferralPays(i, sel, rev)
                          THEN attributions[sel].referrer ELSE NoOne
          /\ o.independent = (Buyer(i) # AcquisitionVault /\ rev)
      BY DEF FundedOffer, NoOffer
    <3>. HIDE DEF o, rev
    <3>. QED
      BY <2>1, <3>1 DEF Creates
  <2>3. rev \in BOOLEAN /\ o \in OfferType
    <3>1. g >= ServiceFee(tariff) /\ sel \in Accounts /\ g \in Nat /\ rev \in BOOLEAN
      <4>. HIDE DEF o
      <4>. QED
        BY <1>0, <2>1 DEF _createOffer
    <3>. HIDE DEF rev
    <3>2. FundedOffer(i, sel, m, g, rev) \in OfferType
      BY <3>1, FundedOfferTyped, Zenon
    <3>. QED
      BY <3>1, <3>2
  <2>. HIDE DEF o, rev
  <2>. QED
    BY <1>0, <2>2, <2>3
<1>2. ASSUME NEW i \in OfferIds, NEW a \in SaleAuthorizations,
             NEW max \in Prices, NEW rev \in BOOLEAN, _createAuthorizedOffer(i, a, max, rev)
      PROVE  \E id \in OfferIds, seller \in Accounts, reviewed \in BOOLEAN, o \in OfferType :
                Creates(id, seller, reviewed, o)
  <2>. DEFINE f == FundedOffer(i, a.seller, a.material, a.gross, rev)
              o == [f EXCEPT !.status = "Accepted", !.acceptedAt = now]
  <2>1. _createOffer(i, a.seller, a.gross, max, rev, o)
    BY <1>2 DEF _createAuthorizedOffer
  <2>2. f \in OfferType
    <3>1. a.gross >= ServiceFee(tariff) /\ a.gross \in Nat /\ a.seller \in Accounts
          /\ a.material \in Materials
      <4>. HIDE DEF o, f
      <4>. QED
        BY <1>0, <2>1 DEF _createOffer
    <3>. QED
      BY <3>1, FundedOfferTyped, Zenon
  <2>3. o \in OfferType /\ o.seller = f.seller /\ o.issuedAt = f.issuedAt
        /\ o.referrer = f.referrer /\ o.independent = f.independent
        /\ o.referralAmount = f.referralAmount /\ o.status = "Accepted"
    <3>. HIDE DEF f
    <3>. QED
      BY <1>0, <2>2 DEF OfferType, Statuses
  <2>4. /\ f.seller = a.seller /\ f.issuedAt = now
        /\ f.referralAmount = IF ReferralPays(i, a.seller, rev) THEN ReferralShare(tariff) ELSE 0
        /\ f.referrer = IF ReferralPays(i, a.seller, rev)
                        THEN attributions[a.seller].referrer ELSE NoOne
        /\ f.independent = (Buyer(i) # AcquisitionVault /\ rev)
    BY DEF FundedOffer, NoOffer
  <2>5. Creates(i, a.seller, rev, o)
    <3>. HIDE DEF o, f
    <3>. QED
      BY <2>1, <2>3, <2>4 DEF Creates
  <2>. HIDE DEF o, f
  <2>. QED
    BY <1>0, <2>3, <2>5
<1>3. ASSUME NEW i \in OfferIds, NEW a \in SaleAuthorizations,
             NEW max \in Prices, createAuthorizedOffer(i, a, max)
      PROVE  \E rev \in BOOLEAN : _createAuthorizedOffer(i, a, max, rev)
  <2>. DEFINE rev == InputDigest(i, a.seller, a.material, a.gross) \in reviewedInputs
  <2>1. _createAuthorizedOffer(i, a, max, rev) /\ rev \in BOOLEAN
    BY <1>3 DEF createAuthorizedOffer
  <2>. HIDE DEF rev
  <2>. QED
    BY <2>1
<1>4. ASSUME NEW i \in OfferIds, NEW a \in SaleAuthorizations, NEW max \in Prices,
             NEW v \in signedReviews, createReviewedAuthorizedOffer(i, a, max, v)
      PROVE  \E rev \in BOOLEAN : _createAuthorizedOffer(i, a, max, rev)
  BY <1>4 DEF createReviewedAuthorizedOffer
<1>. QED
  BY <1>1, <1>2, <1>3, <1>4 DEF Funding

LEMMA FundingsKeepReferrals ==
    ASSUME Typed, ReferralsKept, Funding
    PROVE  ReferralsKept'
<1>1. PICK id \in OfferIds, seller \in Accounts, reviewed \in BOOLEAN, o \in OfferType :
         Creates(id, seller, reviewed, o)
  BY FundingCreates
<1>. DEFINE activates == ReferralActivates(id, seller, reviewed)
            first == firstExternalOrderAt[seller]
<1>2. /\ offers \in [OfferIds -> OfferType] /\ now \in Nat /\ now >= 1
      /\ attributions \in [Accounts -> [referrer : Accounts \cup {NoOne}, acceptedAt : Nat]]
      /\ firstExternalOrderAt \in [Accounts -> Nat]
      /\ ReferralActivationWindow \in Nat /\ ReferralTerm \in Nat
      /\ ReferralActivationWindow > 0 /\ ReferralTerm > 0
  BY WindowsAssumption DEF Typed, TypeOK, SalesTyped, ReferralTyped, Windows
<1>3. /\ offers' = [offers EXCEPT ![id] = o]
      /\ firstExternalOrderAt' = [firstExternalOrderAt EXCEPT ![seller] =
             IF activates THEN now ELSE @]
      /\ attributions' = attributions /\ now' = now
  BY <1>1 DEF Creates, _createOffer
<1>9. attributions' = attributions /\ now' = now
  BY <1>3
<1>4. \A a \in Accounts : /\ AttributionSound(a) /\ FirstOrderSound(a)
                          /\ firstExternalOrderAt'[a] =
                               IF a = seller /\ activates THEN now ELSE firstExternalOrderAt[a]
  <2>. HIDE DEF activates
  <2>. QED
    BY <1>2, <1>3 DEF ReferralsKept, ClocksSound
<1>5. activates => /\ first = 0 /\ attributions[seller].referrer # NoOne
                   /\ now < attributions[seller].acceptedAt + ReferralActivationWindow
  BY DEF ReferralActivates, ReferralEligible
<1>6. ClocksSound'
  <2>1. ASSUME NEW a \in Accounts
        PROVE  AttributionSound(a)' /\ FirstOrderSound(a)'
    <3>. HIDE DEF activates
    <3>1. AttributionSound(a)'
      BY <1>3, <1>4 DEF AttributionSound
    <3>2. CASE a = seller /\ activates
      BY <1>2, <1>3, <1>4, <1>5, <3>2 DEF AttributionSound, FirstOrderSound
    <3>3. CASE ~ (a = seller /\ activates)
      <4>1. FirstOrderSound(a) /\ firstExternalOrderAt'[a] = firstExternalOrderAt[a]
        BY <1>4, <3>3
      <4>. QED
        BY <1>9, <3>1, <4>1 DEF FirstOrderSound
    <3>. QED
      BY <3>1, <3>2, <3>3
  <2>. QED
    BY <2>1 DEF ClocksSound
<1>7. NoReferralCycle'
  BY <1>3 DEF ReferralsKept, NoReferralCycle
<1>8. ASSUME NEW i \in OfferIds
      PROVE  Earned(i)' /\ Paid(i)'
  <2>1. CASE i # id
    <3>1. offers'[i] = offers[i] /\ Earned(i) /\ Paid(i)
      BY <1>2, <1>3, <2>1 DEF ReferralsKept
    <3>2. offers[i].referrer # NoOne =>
            firstExternalOrderAt'[offers[i].seller] = firstExternalOrderAt[offers[i].seller]
      <4>. HIDE DEF activates
      <4>. QED
        BY <1>4, <1>5, <3>1 DEF Earned, Paid
    <3>. QED
      BY <1>3, <3>1, <3>2 DEF Earned, Paid
  <2>2. CASE i = id /\ ~ ReferralPays(id, seller, reviewed)
    <3>1. offers'[i] = o /\ o.referrer = NoOne
      BY <1>1, <1>2, <1>3, <2>2 DEF Creates
    <3>. QED
      BY <3>1 DEF Earned, Paid
  <2>3. CASE i = id /\ ReferralPays(id, seller, reviewed)
    <3>1. /\ offers'[i] = o /\ o.seller = seller /\ o.issuedAt = now
          /\ o.referrer = attributions[seller].referrer
          /\ o.independent = (Buyer(id) # AcquisitionVault /\ reviewed)
      BY <1>1, <1>2, <1>3, <2>3 DEF Creates
    <3>2. /\ reviewed /\ Buyer(id) # AcquisitionVault
          /\ attributions[seller].referrer \notin {NoOne, Buyer(id)}
      BY <2>3 DEF ReferralPays, ReferralEligible
    <3>3. /\ firstExternalOrderAt'[seller] = ReferralStart(id, seller, reviewed)
          /\ firstExternalOrderAt'[seller] # 0
          /\ now < firstExternalOrderAt'[seller] + ReferralTerm
      BY <1>4, <2>3 DEF ReferralPays, ReferralStart
    <3>4. AttributionSound(seller)' /\ FirstOrderSound(seller)'
      BY <1>6 DEF ClocksSound
    <3>5. firstExternalOrderAt'[seller] \in Nat
      BY <1>2, <1>4
    <3>6. Paid(i)'
      BY <3>1 DEF Paid
    <3>7. Earned(i)'
      <4>. DEFINE t == attributions[seller]
                  f == firstExternalOrderAt'[seller]
      <4>1. /\ t.referrer \notin {NoOne, seller, AcquisitionVault, Buyer(id)}
            /\ t.acceptedAt <= f /\ f < t.acceptedAt + ReferralActivationWindow
            /\ f <= now /\ f # 0 /\ now < f + ReferralTerm
            /\ f \in Nat /\ t.acceptedAt \in Nat
        BY <1>2, <1>9, <3>2, <3>3, <3>4, <3>5 DEF AttributionSound, FirstOrderSound
      <4>2. /\ f \in t.acceptedAt .. t.acceptedAt + ReferralActivationWindow - 1
            /\ now \in f .. f + ReferralTerm - 1
        <5>. HIDE DEF t, f
        <5>. QED
          BY <1>2, <4>1
      <4>3. /\ offers'[i].seller = seller /\ offers'[i].issuedAt = now
            /\ offers'[i].referrer = t.referrer /\ offers'[i].independent
            /\ attributions'[seller] = t
        BY <1>9, <3>1, <3>2
      <4>. HIDE DEF t
      <4>. QED
        BY <2>3, <4>1, <4>2, <4>3 DEF Earned
    <3>. QED
      BY <3>6, <3>7
  <2>. QED
    BY <2>1, <2>2, <2>3
<1>. QED
  BY <1>6, <1>7, <1>8 DEF ReferralsKept

LEMMA RegistrationsKeepReferrals ==
    ASSUME Typed, ReferralsKept, NEW a \in Sellers, NEW r \in Referrers,
           registerReferrer(a, r)
    PROVE  ReferralsKept'
<1>1. /\ attributions \in [Accounts -> [referrer : Accounts \cup {NoOne}, acceptedAt : Nat]]
      /\ firstExternalOrderAt \in [Accounts -> Nat] /\ now \in Nat
      /\ offers \in [OfferIds -> OfferType]
      /\ a \in Accounts /\ r \in Accounts
  BY AccountsAssumption DEF Typed, TypeOK, SalesTyped, ReferralTyped
<1>2. /\ attributions' = [attributions EXCEPT ![a] = [referrer |-> r, acceptedAt |-> now]]
      /\ attributions[a].referrer = NoOne /\ r \notin {a, AcquisitionVault}
      /\ now' = now /\ offers' = offers /\ firstExternalOrderAt' = firstExternalOrderAt
  BY DEF registerReferrer, Attributable, sales
<1>3. NoReferralCycle'
  BY <1>1, RegistrationClosesNoCircle DEF ReferralsKept
<1>4. ASSUME NEW b \in Accounts
      PROVE  AttributionSound(b)' /\ FirstOrderSound(b)'
  <2>1. AttributionSound(b) /\ FirstOrderSound(b)
    BY DEF ReferralsKept, ClocksSound
  <2>2. CASE b # a
    BY <1>1, <1>2, <2>1, <2>2 DEF AttributionSound, FirstOrderSound
  <2>3. CASE b = a
    BY <1>1, <1>2, <2>1, <2>3 DEF AttributionSound, FirstOrderSound
  <2>. QED
    BY <2>2, <2>3
<1>5. ASSUME NEW i \in OfferIds
      PROVE  Earned(i)' /\ Paid(i)'
  <2>1. Earned(i) /\ Paid(i)
    BY DEF ReferralsKept
  <2>2. offers[i].referrer # NoOne => offers[i].seller # a
    BY <1>2, <2>1 DEF Earned
  <2>3. offers[i].referrer # NoOne =>
          attributions'[offers[i].seller] = attributions[offers[i].seller]
    BY <1>1, <1>2, <2>1, <2>2 DEF Paid
  <2>. QED
    BY <1>2, <2>1, <2>3 DEF Earned, Paid
<1>. QED
  BY <1>3, <1>4, <1>5 DEF ReferralsKept, ClocksSound

LEMMA OtherStepsKeepReferrals ==
    ASSUME Typed, ReferralsKept, [Next]_vars, ~ Funding,
           ~ (\E a \in Sellers, r \in Referrers : registerReferrer(a, r))
    PROVE  ReferralsKept'
<1>1. now' \in {now, now + 1} /\ UNCHANGED <<attributions, firstExternalOrderAt>>
  <2>1. CASE Settlement
    BY <2>1 DEF Settlement, acceptOffer, markDelivered, finalize, refundExpired,
                cancelOffer, refundUndelivered, _refund, _claim, context, referral
  <2>2. CASE Disputes
    <3>1. PICK i \in OfferIds : CaseMoves(i)
      BY <2>2 DEF Disputes, CaseMoves
    <3>2. now' = now /\ UNCHANGED context
      BY <3>1 DEF CaseMoves, dispute, respondToDispute, waiveDisputeResponseWindow,
                  voteDispute, finalizeExpiredDispute
    <3>. QED
      BY <3>2 DEF context, referral
  <2>3. CASE Reviewing
    BY <2>3 DEF Reviewing, reviewOffer, signIndependentReview, referral
  <2>4. CASE Consenting
    BY <2>4 DEF Consenting, revokeSaleAuthorization, referral
  <2>5. CASE Governing
    BY <2>5 DEF Governing, queueGovernance, cancelGovernance, executeOperator,
                executeTariff, pause, unpause, bindFeeDiscounts, referral
  <2>6. CASE Environment
    BY <2>6 DEF Environment, holdingsChange, Tick, context, referral
  <2>7. CASE UNCHANGED vars
    BY <2>7 DEF vars, context, referral
  <2>. QED
    BY <2>1, <2>2, <2>3, <2>4, <2>5, <2>6, <2>7 DEF Next
<1>2. NoReferralCycle'
  BY <1>1 DEF ReferralsKept, NoReferralCycle
<1>3. ClocksSound'
  <2>1. now \in Nat /\ now' \in Nat /\ now' >= now
    BY <1>1 DEF Typed, TypeOK
  <2>2. /\ attributions \in [Accounts -> [referrer : Accounts \cup {NoOne}, acceptedAt : Nat]]
        /\ firstExternalOrderAt \in [Accounts -> Nat]
    BY DEF Typed, TypeOK, ReferralTyped
  <2>. QED
    BY <1>1, <2>1, <2>2 DEF ReferralsKept, ClocksSound, AttributionSound, FirstOrderSound
<1>4. ASSUME NEW i \in OfferIds
      PROVE  Earned(i)' /\ Paid(i)'
  <2>1. Earned(i) /\ Paid(i)
    BY DEF ReferralsKept
  <2>2. offers'[i] = offers[i] \/ SameDeal(i)
    BY EverySaleMoves, CaseMovesAre DEF SaleMoves
  <2>. QED
    BY <1>1, <2>1, <2>2 DEF Earned, Paid, SameDeal
<1>. QED
  BY <1>2, <1>3, <1>4 DEF ReferralsKept

(* Every referral share goes to the seller's own referrer, who is no party *)
(* to the sale, on an independent sale, within the one term that began     *)
(* inside the attribution's window; and no group of accounts refers itself,*)
(* however many registrations follow one another (registerReferrer's walk  *)
(* of bounded length, _createOffer).                                        *)
THEOREM ReferralsAreAlwaysEarned == Spec => []ReferralsAreEarned
<1>1. Init => ReferralsKept
  <2>1. SUFFICES ASSUME Init PROVE ReferralsKept
    OBVIOUS
  <2>2. \A a \in Accounts : attributions[a].referrer = NoOne /\ firstExternalOrderAt[a] = 0
    BY <2>1 DEF Init
  <2>3. NoReferralCycle
    <3>1. {a \in Accounts : attributions[a].referrer # NoOne} = {}
      BY <2>2
    <3>2. \A S \in SUBSET {} : S = {}
      OBVIOUS
    <3>. DEFINE attributed == {a \in Accounts : attributions[a].referrer # NoOne}
    <3>3. \A S \in (SUBSET attributed) \ {{}} : FALSE
      <4>. HIDE DEF attributed
      <4>1. attributed = {}
        BY <3>1 DEF attributed
      <4>. QED
        BY <3>2, <4>1
    <3>. QED
      BY <3>3 DEF NoReferralCycle
  <2>4. ClocksSound
    BY <2>2 DEF ClocksSound, AttributionSound, FirstOrderSound
  <2>5. \A id \in OfferIds : offers[id].referrer = NoOne
    BY <2>1 DEF Init, NoOffer
  <2>6. \A id \in OfferIds : Earned(id) /\ Paid(id)
    BY <2>5 DEF Earned, Paid
  <2>. QED
    BY <2>3, <2>4, <2>6 DEF ReferralsKept
<1>2. Typed /\ ReferralsKept /\ [Next]_vars => ReferralsKept'
  BY FundingsKeepReferrals, RegistrationsKeepReferrals, OtherStepsKeepReferrals
<1>3. ReferralsKept => ReferralsAreEarned
  BY DEF ReferralsKept, ReferralsAreEarned
<1>. QED
  BY <1>1, <1>2, <1>3, AlwaysTyped, PTL DEF Spec

-----------------------------------------------------------------------------
(* The escrow.  Each call funds, pays, refunds or splits one sale as its   *)
(* terms say, pays out one credit, or leaves what is in escrow alone.      *)

(* A referral share has somebody to go to, and every sale has a seller.    *)
SaleSound(id) ==
    offers[id].status # "None" =>
        /\ offers[id].seller \in Accounts
        /\ offers[id].referrer = NoOne => offers[id].referralAmount = 0

AllSound == \A id \in OfferIds : SaleSound(id)

LEMMA SameTerms == \A id : SameDeal(id) => TermsOf(offers'[id]) = TermsOf(offers[id])
BY DEF SameDeal, TermsOf, Total, ProtocolFee

(* The allocation of a funded sale is one of the escrow's.                 *)
LEMMA TermsAreAllocations ==
    ASSUME NEW o \in OfferType, Total(o) >= 0, ProtocolFee(o) >= 0,
           o.seller \in Accounts, o.referrer = NoOne => o.referralAmount = 0
    PROVE  /\ TermsOf(o) \in Escrow!Terms
           /\ \A a \in Accounts : Escrow!Share(TermsOf(o), a) = Share(o, a)
<1>. DEFINE t == TermsOf(o)
<1>1. /\ o.gross \in Nat /\ o.sellerAmount \in Nat /\ o.referralAmount \in Nat
      /\ o.buyerDiscount \in Nat /\ o.referrer \in Accounts \cup {NoOne}
      /\ o.treasury \in BOOLEAN
  BY DEF OfferType
<1>2. /\ Total(o) \in Nat /\ ProtocolFee(o) \in Nat
      /\ Total(o) = o.sellerAmount + o.referralAmount + ProtocolFee(o)
  BY <1>1 DEF Total, ProtocolFee
<1>3. /\ o.seller \in Accounts
      /\ o.referrer = NoOne => o.referralAmount = 0
  OBVIOUS
<1>4. ProtocolRecipient \in Accounts /\ AcquisitionVault \in Accounts /\ NoOne \notin Accounts
  BY AccountsAssumption
<1>5. /\ t.payment = Total(o)
      /\ t.part["seller"] = o.sellerAmount /\ t.part["referrer"] = o.referralAmount
      /\ t.part["protocol"] = ProtocolFee(o)
      /\ t.payee["seller"] = o.seller
      /\ t.payee["referrer"] = IF o.referrer = NoOne THEN ProtocolRecipient ELSE o.referrer
      /\ t.payee["protocol"] = IF o.treasury THEN AcquisitionVault ELSE ProtocolRecipient
  BY DEF TermsOf
<1>6. t \in [payment : Nat, part : [Escrow!Roles -> Nat], payee : [Escrow!Roles -> Accounts]]
  <2>. DEFINE r == IF o.referrer = NoOne THEN ProtocolRecipient ELSE o.referrer
              v == IF o.treasury THEN AcquisitionVault ELSE ProtocolRecipient
  <2>1. r \in Accounts /\ v \in Accounts
    BY <1>1, <1>4
  <2>. HIDE DEF r, v
  <2>2. [seller |-> o.sellerAmount, referrer |-> o.referralAmount, protocol |-> ProtocolFee(o)]
          \in [Escrow!Roles -> Nat]
    BY <1>1, <1>2 DEF Escrow!Roles
  <2>3. [seller |-> o.seller, referrer |-> r, protocol |-> v] \in [Escrow!Roles -> Accounts]
    BY <1>3, <2>1 DEF Escrow!Roles
  <2>. QED
    BY <1>2, <2>2, <2>3 DEF TermsOf, r, v
<1>. HIDE DEF t
<1>7. t \in Escrow!Terms
  BY <1>2, <1>5, <1>6 DEF Escrow!Terms
<1>8. ASSUME NEW a \in Accounts PROVE Escrow!Share(t, a) = Share(o, a)
  <2>1. Escrow!Share(t, a) =
          (IF t.payee["seller"] = a THEN t.part["seller"] ELSE 0)
          + (IF t.payee["referrer"] = a THEN t.part["referrer"] ELSE 0)
          + (IF t.payee["protocol"] = a THEN t.part["protocol"] ELSE 0)
    BY DEF Escrow!Share
  <2>. QED
    BY <1>1, <1>2, <1>3, <1>4, <1>5, <2>1 DEF Share
<1>. QED
  BY <1>7, <1>8 DEF t

LEMMA InitSound == Init => AllSound
BY DEF Init, AllSound, SaleSound, NoOffer

LEMMA StepSound ==
    ASSUME Typed, CasesKept, AllSound, [Next]_vars
    PROVE  AllSound'
<1>1. CASE Funding
  <2>1. PICK i \in OfferIds, seller \in Accounts, reviewed \in BOOLEAN, o \in OfferType :
             Creates(i, seller, reviewed, o)
    BY <1>1, FundingCreates
  <2>2. offers' = [offers EXCEPT ![i] = o]
    BY <2>1 DEF Creates, _createOffer
  <2>3. o.seller \in Accounts /\ (o.referrer = NoOne => o.referralAmount = 0)
    BY <2>1 DEF Creates, ReferralPays, ReferralEligible
  <2>. QED
    BY <2>2, <2>3 DEF AllSound, SaleSound, Typed, TypeOK, SalesTyped
<1>2. CASE ~Funding
  <2>1. ASSUME NEW id \in OfferIds PROVE SaleSound(id)'
    <3>1. SaleMoves(id) \/ CaseMoves(id)
      BY EverySaleMoves
    <3>2. CASE offers'[id] = offers[id]
      BY <3>2 DEF AllSound, SaleSound
    <3>3. CASE SameDeal(id) /\ offers[id].status # "None"
      BY <3>3 DEF AllSound, SaleSound, SameDeal
    <3>4. CASE CaseMoves(id)
      <4>1. SameDeal(id) /\ offers[id].status \in {"Delivered", "Disputed"}
        BY <3>4, CaseMovesAre
      <4>. QED
        BY <3>3, <4>1
    <3>. QED
      BY <1>2, <3>1, <3>2, <3>3, <3>4 DEF SaleMoves, Forward
  <2>. QED
    BY <2>1 DEF AllSound, SaleSound
<1>. QED
  BY <1>1, <1>2

(* What a step on one sale is for the escrow.                              *)
Sales == [id \in OfferIds |-> SaleOf(id)]

LEMMA OneSaleMoves ==
    ASSUME Typed, NEW i \in OfferIds, NEW x, SaleOf(i)' = x,
           \A id \in OfferIds : id # i =>
              offers'[id] = offers[id] /\ disputeCases'[id] = disputeCases[id]
    PROVE  Sales' = [Sales EXCEPT ![i] = x]
<1>1. \A id \in OfferIds : id # i => SaleOf(id)' = SaleOf(id)
  BY DEF SaleOf, PhaseOf
<1>. HIDE DEF SaleOf
<1>. QED
  BY <1>1 DEF Sales

LEMMA SalesStay ==
    ASSUME Typed, NEW i \in OfferIds, SaleOf(i)' = SaleOf(i),
           \A id \in OfferIds : id # i =>
              offers'[id] = offers[id] /\ disputeCases'[id] = disputeCases[id]
    PROVE  Sales' = Sales
<1>1. \A id \in OfferIds : id # i => SaleOf(id)' = SaleOf(id)
  BY DEF SaleOf, PhaseOf
<1>. HIDE DEF SaleOf
<1>. QED
  BY <1>1 DEF Sales

LEMMA HeldOrEnded ==
    ASSUME NEW id \in OfferIds, SameDeal(id), offers[id].status \in Live
    PROVE  /\ Sales[id] = Escrow!InPhase("held", TermsOf(offers[id]))
           /\ offers'[id].status \in Live => SaleOf(id)' = SaleOf(id)
           /\ offers'[id].status = "Finalized" =>
                 SaleOf(id)' = Escrow!InPhase("paid", TermsOf(offers[id]))
           /\ offers'[id].status = "Refunded" =>
                 SaleOf(id)' = Escrow!InPhase(
                    IF disputeCases'[id].outcome = "BuyerWins" THEN "split" ELSE "refunded",
                    TermsOf(offers[id]))
<1>1. TermsOf(offers'[id]) = TermsOf(offers[id])
  BY SameTerms
<1>. DEFINE t == TermsOf(offers[id])
<1>2. PhaseOf(id) = "held" /\ offers[id].status # "None"
  BY DEF PhaseOf, Live
<1>3. SaleOf(id) = Escrow!InPhase("held", t)
  BY <1>2 DEF SaleOf, Escrow!InPhase
<1>4. SaleOf(id)' = IF offers'[id].status = "None" THEN [phase |-> "unfunded"]
                    ELSE Escrow!InPhase(PhaseOf(id)', t)
  BY <1>1 DEF SaleOf, Escrow!InPhase
<1>5. Sales[id] = SaleOf(id)
  BY DEF Sales
<1>. HIDE DEF t
<1>6. ASSUME offers'[id].status \in Live PROVE SaleOf(id)' = SaleOf(id)
  <2>1. PhaseOf(id)' = "held" /\ offers'[id].status # "None"
    BY <1>6 DEF PhaseOf, Live
  <2>. QED
    BY <1>3, <1>4, <2>1
<1>7. ASSUME offers'[id].status = "Finalized" PROVE SaleOf(id)' = Escrow!InPhase("paid", t)
  <2>1. PhaseOf(id)' = "paid"
    BY <1>7 DEF PhaseOf, Live
  <2>. QED
    BY <1>4, <1>7, <2>1
<1>8. ASSUME offers'[id].status = "Refunded"
      PROVE  SaleOf(id)' = Escrow!InPhase(
                IF disputeCases'[id].outcome = "BuyerWins" THEN "split" ELSE "refunded", t)
  <2>1. PhaseOf(id)' = IF disputeCases'[id].outcome = "BuyerWins" THEN "split" ELSE "refunded"
    BY <1>8 DEF PhaseOf, Live
  <2>. QED
    BY <1>4, <1>8, <2>1
<1>. QED
  BY <1>3, <1>5, <1>6, <1>7, <1>8 DEF t

(* A payment is taken, and its allocation fixed, by a funding.             *)
LEMMA FundingFunds ==
    ASSUME Typed, Typed', AllSound', Funding
    PROVE  \E id \in OfferIds : Escrow!Fund(id)
<1>1. PICK i \in OfferIds, seller \in Accounts, reviewed \in BOOLEAN, o \in OfferType :
           Creates(i, seller, reviewed, o)
  BY FundingCreates
<1>2. /\ offers[i].status = "None" /\ offers' = [offers EXCEPT ![i] = o]
      /\ o.status \in {"Offered", "Accepted"}
      /\ balance' = balance + Total(o)
      /\ claimable' = claimable /\ disputeCases' = disputeCases
  BY <1>1 DEF Creates, _createOffer
<1>3. offers'[i] = o
  BY <1>2 DEF Typed, TypeOK, SalesTyped
<1>. DEFINE t == TermsOf(o)
<1>4. t \in Escrow!Terms
  <2>1. TermsOf(offers'[i]) \in Escrow!Terms
    <3>1. o.seller \in Accounts /\ (o.referrer = NoOne => o.referralAmount = 0)
      BY <1>2, <1>3 DEF AllSound, SaleSound
    <3>2. Total(o) >= 0 /\ ProtocolFee(o) >= 0
      BY <1>3 DEF Typed, OffersAddUp
    <3>. QED
      BY <1>3, <3>1, <3>2, TermsAreAllocations
  <2>. QED
    BY <1>3, <2>1
<1>5. Sales[i] = Escrow!Unfunded
  BY <1>2 DEF Sales, SaleOf, Escrow!Unfunded
<1>6. SaleOf(i)' = Escrow!InPhase("held", t)
  <2>1. PhaseOf(i)' = "held"
    BY <1>2, <1>3 DEF PhaseOf, Live
  <2>2. SaleOf(i)' = [phase |-> PhaseOf(i)', terms |-> TermsOf(offers'[i])]
    BY <1>2, <1>3 DEF SaleOf
  <2>. QED
    BY <1>3, <2>1, <2>2 DEF Escrow!InPhase
<1>7. Sales' = [Sales EXCEPT ![i] = Escrow!InPhase("held", t)]
  <2>1. \A id \in OfferIds : id # i =>
            offers'[id] = offers[id] /\ disputeCases'[id] = disputeCases[id]
    BY <1>2 DEF Typed, TypeOK, SalesTyped
  <2>. HIDE DEF t
  <2>. QED
    BY <1>6, <2>1, OneSaleMoves
<1>8. balance' = balance + t.payment
  BY <1>2 DEF TermsOf
<1>. HIDE DEF t
<1>9. Sales'[i] = Escrow!InPhase("held", t)
  BY <1>7 DEF Sales
<1>10. Sales'[i].terms = t /\ Sales'[i] # Escrow!Unfunded
  <2>1. Sales'[i].terms = t /\ Sales'[i].phase = "held"
    BY <1>9 DEF Escrow!InPhase
  <2>2. Escrow!Unfunded.phase = "unfunded"
    BY DEF Escrow!Unfunded
  <2>. QED
    BY <2>1, <2>2
<1>11. Escrow!Fund(i)
  BY <1>2, <1>4, <1>5, <1>7, <1>8, <1>10 DEF Escrow!Fund, Sales
<1>. QED
  BY <1>11

(* A payment leaves once, and as it must.                                  *)
LEMMA EndsLeave ==
    ASSUME Typed, NEW i \in OfferIds, NEW phase, SameDeal(i), offers[i].status \in Live,
           SaleOf(i)' = Escrow!InPhase(phase, TermsOf(offers[i])),
           \A id \in OfferIds : id # i =>
              offers'[id] = offers[id] /\ disputeCases'[id] = disputeCases[id]
    PROVE  Escrow!Leave(i, phase) /\ Sales[i].terms = TermsOf(offers[i])
<1>. DEFINE t == TermsOf(offers[i])
<1>1. Sales[i] = Escrow!InPhase("held", t)
  BY HeldOrEnded
<1>. HIDE DEF t
<1>2. Sales[i].phase = "held" /\ Sales[i].terms = t
  BY <1>1 DEF Escrow!InPhase
<1>3. Sales' = [Sales EXCEPT ![i] = Escrow!InPhase(phase, t)]
  BY OneSaleMoves DEF t
<1>. QED
  BY <1>2, <1>3 DEF Escrow!Leave, Sales, t

LEMMA StepIsTheEscrows ==
    ASSUME Typed, Typed', CasesKept, AllSound, AllSound', [Next]_vars
    PROVE  [Escrow!Next]_(Escrow!vars)
<1>0. /\ offers \in [OfferIds -> OfferType] /\ disputeCases \in [OfferIds -> CaseType]
      /\ claimable \in [Accounts -> Nat] /\ balance \in Nat
      /\ \A id \in OfferIds : Buyer(id) \in Accounts
  BY AccountsAssumption DEF Typed, TypeOK, SalesTyped, MoneyTyped, Buyer
<1>1. ASSUME Sales' = Sales, UNCHANGED <<claimable, balance>>
      PROVE  UNCHANGED Escrow!vars
  BY <1>1 DEF Escrow!vars, Sales
<1>2. ASSUME NEW i \in OfferIds, offers'[i].status \in Live, offers[i].status \in Live,
             SameDeal(i), UNCHANGED <<claimable, balance>>,
             \A id \in OfferIds : id # i =>
                offers'[id] = offers[id] /\ disputeCases'[id] = disputeCases[id]
      PROVE  UNCHANGED Escrow!vars
  <2>1. SaleOf(i)' = SaleOf(i)
    BY <1>2, HeldOrEnded
  <2>2. Sales' = Sales
    BY <1>2, <2>1, SalesStay
  <2>. QED
    BY <1>1, <1>2, <2>2
<1>3. CASE Funding
  <2>1. \E id \in OfferIds : Escrow!Fund(id)
    BY <1>3, FundingFunds
  <2>. QED
    BY <2>1 DEF Escrow!Next
<1>4. ASSUME NEW i \in OfferIds, _refund(i), offers[i].status \in {"Offered", "Accepted"}
      PROVE  Escrow!Refund(i)
  <2>. DEFINE t == TermsOf(offers[i])
  <2>1. /\ offers' = [offers EXCEPT ![i].status = "Refunded"] /\ disputeCases' = disputeCases
        /\ claimable' = [claimable EXCEPT ![Buyer(i)] = @ + Total(offers[i])]
        /\ balance' = balance
    BY <1>4 DEF _refund
  <2>2. SameDeal(i) /\ offers'[i].status = "Refunded"
    BY <1>0, <2>1 DEF SameDeal, OfferType
  <2>3. disputeCases'[i].outcome # "BuyerWins"
    BY <1>4, <2>1 DEF CasesKept, CaseMatchesOffer, CaseMatches
  <2>4. SaleOf(i)' = Escrow!InPhase("refunded", t)
    BY <1>4, <2>2, <2>3, HeldOrEnded DEF Live
  <2>. HIDE DEF t
  <2>5. Escrow!Leave(i, "refunded") /\ Sales[i].terms = t
    <3>1. \A id \in OfferIds : id # i =>
              offers'[id] = offers[id] /\ disputeCases'[id] = disputeCases[id]
      BY <1>0, <2>1
    <3>. QED
      BY <1>4, <2>2, <2>4, <3>1, EndsLeave DEF Live, t
  <2>6. t.payment = Total(offers[i])
    BY DEF t, TermsOf
  <2>. QED
    BY <2>1, <2>5, <2>6 DEF Escrow!Refund, Sales
<1>5. CASE Settlement
  <2>1. ASSUME NEW i \in OfferIds, acceptOffer(i) \/ markDelivered(i)
        PROVE  UNCHANGED Escrow!vars
    <3>1. /\ offers'[i].status \in Live /\ offers[i].status \in Live /\ SameDeal(i)
          /\ disputeCases' = disputeCases
          /\ UNCHANGED <<claimable, balance>>
          /\ \A id \in OfferIds : id # i => offers'[id] = offers[id]
      BY <1>0, <2>1 DEF acceptOffer, markDelivered, SameDeal, OfferType, Live, money
    <3>. QED
      BY <1>2, <3>1
  <2>2. ASSUME NEW i \in OfferIds, finalize(i)
        PROVE  Escrow!Pay(i)
    <3>. DEFINE t == TermsOf(offers[i])
    <3>1. /\ offers[i].status = "Delivered"
          /\ offers' = [offers EXCEPT ![i].status = "Finalized"] /\ disputeCases' = disputeCases
          /\ claimable' = [a \in Accounts |-> claimable[a] + Share(offers[i], a)]
          /\ balance' = balance
      BY <2>2 DEF finalize
    <3>2. SameDeal(i) /\ offers'[i].status = "Finalized"
      BY <1>0, <3>1 DEF SameDeal, OfferType
    <3>3. SaleOf(i)' = Escrow!InPhase("paid", t)
      BY <3>1, <3>2, HeldOrEnded DEF Live
    <3>4. \A a \in Accounts : Escrow!Share(t, a) = Share(offers[i], a)
      <4>1. /\ offers[i] \in OfferType /\ SaleSound(i)
            /\ Total(offers[i]) >= 0 /\ ProtocolFee(offers[i]) >= 0
        BY <1>0 DEF AllSound, Typed, OffersAddUp
      <4>. QED
        BY <3>1, <4>1, TermsAreAllocations DEF SaleSound
    <3>. HIDE DEF t
    <3>5. Escrow!Leave(i, "paid") /\ Sales[i].terms = t
      <4>1. \A id \in OfferIds : id # i =>
                offers'[id] = offers[id] /\ disputeCases'[id] = disputeCases[id]
        BY <1>0, <3>1
      <4>. QED
        BY <3>1, <3>2, <3>3, <4>1, EndsLeave DEF Live, t
    <3>6. claimable' = [a \in Accounts |-> claimable[a] + Escrow!Share(t, a)]
      BY <3>1, <3>4
    <3>. QED
      BY <3>1, <3>5, <3>6 DEF Escrow!Pay, Sales
  <2>3. ASSUME NEW a \in Accounts, _claim(a) PROVE Escrow!Withdraw(a)
    <3>1. Sales' = Sales
      BY <2>3 DEF _claim, sales, Sales, SaleOf, PhaseOf
    <3>. QED
      BY <2>3, <3>1 DEF _claim, Escrow!Withdraw, Sales
  <2>. QED
    BY <1>4, <1>5, <2>1, <2>2, <2>3
       DEF Settlement, refundExpired, cancelOffer, refundUndelivered, Escrow!Next
<1>6. CASE Disputes
  <2>1. ASSUME NEW i \in OfferIds, NEW c, _adjudicateBuyerWin(i, c),
               offers[i].status = "Disputed"
        PROVE  Escrow!Split(i)
    <3>. DEFINE t == TermsOf(offers[i])
                total == Total(offers[i])
                half == total \div 2
    <3>1. /\ disputeCases' = [disputeCases EXCEPT ![i] = [c EXCEPT !.outcome = "BuyerWins"]]
          /\ offers' = [offers EXCEPT ![i].status = "Refunded"]
          /\ claimable' = [claimable EXCEPT ![Buyer(i)] = @ + half]
          /\ balance' = balance - (total - half)
      BY <2>1 DEF _adjudicateBuyerWin
    <3>2. SameDeal(i) /\ offers'[i].status = "Refunded"
      BY <1>0, <3>1 DEF SameDeal, OfferType
    <3>3. disputeCases'[i].outcome = "BuyerWins"
      <4>1. disputeCases'[i] \in CaseType
        BY DEF Typed, TypeOK, SalesTyped
      <4>2. CasesKept'
        BY StepKeepsCases
      <4>3. disputeCases'[i].outcome # "None" /\ disputeCases'[i].outcome # "Uphold"
        BY <1>0, <3>1, <3>2, <4>2 DEF CasesKept, CaseMatchesOffer, CaseMatches
      <4>. QED
        BY <4>1, <4>3 DEF CaseType, Decisions
    <3>4. SaleOf(i)' = Escrow!InPhase("split", t)
      BY <2>1, <3>2, <3>3, HeldOrEnded DEF Live
    <3>5. t.payment = total
      BY DEF TermsOf
    <3>. HIDE DEF t
    <3>6. Escrow!Leave(i, "split") /\ Sales[i].terms = t
      <4>1. \A id \in OfferIds : id # i =>
                offers'[id] = offers[id] /\ disputeCases'[id] = disputeCases[id]
        BY <1>0, <3>1
      <4>. QED
        BY <2>1, <3>2, <3>4, <4>1, EndsLeave DEF Live, t
    <3>. HIDE DEF total
    <3>. QED
      BY <3>1, <3>5, <3>6 DEF Escrow!Split, Sales
  <2>2. ASSUME NEW i \in OfferIds, NEW c, _adjudicateUphold(i, c),
               offers[i].status = "Disputed"
        PROVE  UNCHANGED Escrow!vars
    <3>1. /\ offers'[i].status \in Live /\ offers[i].status \in Live /\ SameDeal(i)
          /\ UNCHANGED <<claimable, balance>>
          /\ \A id \in OfferIds : id # i =>
                offers'[id] = offers[id] /\ disputeCases'[id] = disputeCases[id]
      BY <1>0, <2>2 DEF _adjudicateUphold, SameDeal, OfferType, Live, money
    <3>. QED
      BY <1>2, <3>1
  <2>3. ASSUME NEW i \in OfferIds,
               dispute(i) \/ respondToDispute(i) \/ waiveDisputeResponseWindow(i)
        PROVE  UNCHANGED Escrow!vars
    <3>1. /\ offers'[i].status \in Live /\ offers[i].status \in Live /\ SameDeal(i)
          /\ UNCHANGED <<claimable, balance>>
          /\ \A id \in OfferIds : id # i =>
                offers'[id] = offers[id] /\ disputeCases'[id] = disputeCases[id]
      BY <1>0, <2>3 DEF dispute, MayDispute, respondToDispute, waiveDisputeResponseWindow,
                        MayWaive, SameDeal, OfferType, Live, money
    <3>. QED
      BY <1>2, <3>1
  <2>4. ASSUME NEW i \in OfferIds, NEW r \in Reviewers, NEW d \in {"Uphold", "BuyerWins"},
               voteDispute(i, r, d)
        PROVE  [Escrow!Next]_(Escrow!vars)
    <3>1. /\ offers[i].status = "Disputed"
          /\ \/ \E c : _adjudicateBuyerWin(i, c) \/ _adjudicateUphold(i, c)
             \/ UNCHANGED <<offers, money>> /\ \E c : disputeCases' = [disputeCases EXCEPT ![i] = c]
      BY <2>4 DEF voteDispute
    <3>2. CASE UNCHANGED <<offers, money>> /\ \E c : disputeCases' = [disputeCases EXCEPT ![i] = c]
      <4>1. /\ offers'[i].status \in Live /\ offers[i].status \in Live /\ SameDeal(i)
            /\ UNCHANGED <<claimable, balance>>
            /\ \A id \in OfferIds : id # i =>
                  offers'[id] = offers[id] /\ disputeCases'[id] = disputeCases[id]
        BY <1>0, <3>1, <3>2 DEF SameDeal, Live, money
      <4>. QED
        BY <1>2, <4>1
    <3>. QED
      BY <2>1, <2>2, <3>1, <3>2 DEF Escrow!Next
  <2>5. ASSUME NEW i \in OfferIds, finalizeExpiredDispute(i)
        PROVE  UNCHANGED Escrow!vars
    BY <2>2, <2>5 DEF finalizeExpiredDispute
  <2>. QED
    BY <1>6, <2>3, <2>4, <2>5 DEF Disputes
<1>7. CASE Reviewing \/ Consenting \/ Governing \/ Environment \/ UNCHANGED vars
  <2>1. UNCHANGED <<sales, money>>
    BY <1>7 DEF Reviewing, reviewOffer, signIndependentReview, Consenting,
       revokeSaleAuthorization, registerReferrer, Governing, queueGovernance,
       cancelGovernance, executeOperator, executeTariff, pause, unpause,
       bindFeeDiscounts, Environment, holdingsChange, Tick, vars
  <2>2. Sales' = Sales /\ UNCHANGED <<claimable, balance>>
    BY <2>1 DEF sales, money, Sales, SaleOf, PhaseOf
  <2>. QED
    BY <1>1, <2>2
<1>. QED
  BY <1>3, <1>5, <1>6, <1>7 DEF Next

(* Whatever the parties, reviewers, governance and the clock do, the       *)
(* contract keeps the escrow's promise: one payment, allocated once, leaves *)
(* once and in full (_createOffer, finalize, _refund, _adjudicateBuyerWin, *)
(* claim).                                                                 *)
THEOREM MarketImplementsEscrow == Spec => ImplementsEscrow
<1>1. Init => Escrow!Init
  BY DEF Init, Escrow!Init, SaleOf, NoOffer, Escrow!Unfunded
<1>2. Typed /\ CasesKept /\ AllSound /\ [Next]_vars => AllSound'
  BY StepSound
<1>3. Spec => []AllSound
  BY <1>2, InitSound, AlwaysTyped, AlwaysCasesKept, PTL DEF Spec
<1>4. Typed /\ Typed' /\ CasesKept /\ AllSound /\ AllSound' /\ [Next]_vars
        => [Escrow!Next]_(Escrow!vars)
  BY StepIsTheEscrows
<1>5. Spec => Escrow!Spec
  BY <1>1, <1>3, <1>4, AlwaysTyped, AlwaysCasesKept, PTL DEF Spec, Escrow!Spec
<1>. QED
  BY <1>5 DEF ImplementsEscrow

-----------------------------------------------------------------------------
(* Consent.  Only the funding of an authorized sale uses what a seller     *)
(* signed, and it uses one authorization, and at most one stream, once.    *)

UsesConsent(id, a, reviewed) ==
    \E max \in Prices : _createAuthorizedOffer(id, a, max, reviewed)

ConsentUnused ==
    UNCHANGED <<authorizationUses, authorizationDigests, streamUses, streamDigests>>

LEMMA ConsentIsUsedByFunding ==
    ASSUME [Next]_vars
    PROVE  \/ ConsentUnused
           \/ \E id \in OfferIds, a \in SaleAuthorizations, reviewed \in BOOLEAN :
                 UsesConsent(id, a, reviewed)
<1>. USE DEF ConsentUnused
<1>1. CASE Funding
  <2>1. ASSUME NEW i \in OfferIds, NEW sel \in Sellers, NEW m \in Materials,
               NEW g \in Prices, NEW max \in Prices, createOffer(i, sel, m, g, max)
        PROVE  ConsentUnused
    BY <2>1 DEF createOffer, consent
  <2>2. ASSUME NEW i \in OfferIds, NEW a \in SaleAuthorizations, NEW max \in Prices,
               createAuthorizedOffer(i, a, max)
        PROVE  \E reviewed \in BOOLEAN : UsesConsent(i, a, reviewed)
    <3>. DEFINE rev == InputDigest(i, a.seller, a.material, a.gross) \in reviewedInputs
    <3>1. _createAuthorizedOffer(i, a, max, rev) /\ rev \in BOOLEAN
      BY <2>2 DEF createAuthorizedOffer
    <3>. HIDE DEF rev
    <3>. QED
      BY <3>1 DEF UsesConsent
  <2>3. ASSUME NEW i \in OfferIds, NEW a \in SaleAuthorizations, NEW max \in Prices,
               NEW v \in signedReviews, createReviewedAuthorizedOffer(i, a, max, v)
        PROVE  UsesConsent(i, a, TRUE)
    BY <2>3 DEF createReviewedAuthorizedOffer, UsesConsent
  <2>. QED
    BY <1>1, <2>1, <2>2, <2>3 DEF Funding
<1>2. CASE Reviewing
  BY <1>2 DEF Reviewing, reviewOffer, signIndependentReview, consent
<1>3. CASE Settlement
  BY <1>3 DEF Settlement, acceptOffer, markDelivered, finalize, refundExpired,
              cancelOffer, refundUndelivered, _refund, _claim, context, consent
<1>4. CASE Disputes
  <2>1. PICK i \in OfferIds : CaseMoves(i)
    BY <1>4 DEF Disputes, CaseMoves
  <2>2. UNCHANGED context
    BY <2>1 DEF CaseMoves, dispute, respondToDispute, waiveDisputeResponseWindow,
                voteDispute, finalizeExpiredDispute
  <2>. QED
    BY <2>2 DEF context, consent
<1>5. CASE Consenting
  BY <1>5 DEF Consenting, revokeSaleAuthorization, registerReferrer, consent
<1>6. CASE Governing
  BY <1>6 DEF Governing, queueGovernance, cancelGovernance, executeOperator,
              executeTariff, pause, unpause, bindFeeDiscounts, consent
<1>7. CASE Environment
  BY <1>7 DEF Environment, holdingsChange, Tick, context, consent
<1>8. CASE UNCHANGED vars
  BY <1>8 DEF vars, context, consent
<1>. QED
  BY <1>1, <1>2, <1>3, <1>4, <1>5, <1>6, <1>7, <1>8 DEF Next

(* What a step does to the count and the terms of one nonce: nothing, or   *)
(* one use of terms that were signed under it, are not revoked and have a *)
(* use left.                                                               *)
OnceMore(uses, digests, k, terms, most, usesNow, digestsNow) ==
    \/ usesNow[k] = uses[k] /\ digestsNow[k] = digests[k]
    \/ /\ ~authorizationRevoked[k]
       /\ uses[k] < most /\ usesNow[k] = uses[k] + 1
       /\ digests[k] \in {NoOne, terms} /\ digestsNow[k] = terms

SaleNonceMoves(k) ==
    \E a \in SaleAuthorizations :
        OnceMore(authorizationUses, authorizationDigests, k, a, a.maxUses,
                 authorizationUses', authorizationDigests')
StreamNonceMoves(k) ==
    \E s \in StreamAuthorizations :
        OnceMore(streamUses, streamDigests, k, s, s.maxSales,
                 streamUses', streamDigests')

LEMMA SaleNoncesMove ==
    ASSUME Typed, [Next]_vars, NEW k \in SaleKeys
    PROVE  SaleNonceMoves(k)
<1>1. CASE ConsentUnused
  <2>1. \E a \in SaleAuthorizations : k = SaleKey(a)
    BY DEF SaleKeys, SaleKey
  <2>. QED
    BY <1>1, <2>1 DEF ConsentUnused, SaleNonceMoves, OnceMore
<1>2. ASSUME NEW id, NEW a \in SaleAuthorizations, _useSaleAuthorization(id, a)
      PROVE  SaleNonceMoves(k)
  <2>1. /\ authorizationDigests' = [authorizationDigests EXCEPT ![SaleKey(a)] = a]
        /\ authorizationUses' = [authorizationUses EXCEPT ![SaleKey(a)] = @ + 1]
        /\ ~authorizationRevoked[SaleKey(a)]
        /\ authorizationUses[SaleKey(a)] < a.maxUses
        /\ authorizationDigests[SaleKey(a)] \in {NoOne, a}
    BY <1>2 DEF _useSaleAuthorization, Available
  <2>2. /\ authorizationUses \in [SaleKeys -> Nat]
        /\ authorizationDigests \in [SaleKeys -> SaleAuthorizations \cup {NoOne}]
    BY DEF Typed, TypeOK, ConsentTyped
  <2>3. CASE k = SaleKey(a)
    BY <2>1, <2>2, <2>3 DEF SaleNonceMoves, OnceMore
  <2>4. CASE k # SaleKey(a)
    BY <2>1, <2>2, <2>4 DEF SaleNonceMoves, OnceMore
  <2>. QED
    BY <2>3, <2>4
<1>. QED
  BY <1>1, <1>2, ConsentIsUsedByFunding DEF UsesConsent, _createAuthorizedOffer

LEMMA StreamNoncesMove ==
    ASSUME Typed, [Next]_vars, NEW k \in StreamKeys
    PROVE  StreamNonceMoves(k)
<1>1. ASSUME UNCHANGED <<streamUses, streamDigests>>
      PROVE  StreamNonceMoves(k)
  <2>1. \E s \in StreamAuthorizations : k = SaleKey(s)
    BY DEF StreamKeys, SaleKey
  <2>. QED
    BY <1>1, <2>1 DEF StreamNonceMoves, OnceMore
<1>2. ASSUME NEW a \in SaleAuthorizations, NEW s \in StreamAuthorizations,
             StreamSigned(a, s)
      PROVE  StreamNonceMoves(k)
  <2>1. /\ streamDigests' = [streamDigests EXCEPT ![SaleKey(s)] = s]
        /\ streamUses' = [streamUses EXCEPT ![SaleKey(s)] = @ + 1]
        /\ ~authorizationRevoked[SaleKey(s)]
        /\ streamUses[SaleKey(s)] < s.maxSales
        /\ streamDigests[SaleKey(s)] \in {NoOne, s}
    BY <1>2 DEF StreamSigned
  <2>2. /\ streamUses \in [StreamKeys -> Nat]
        /\ streamDigests \in [StreamKeys -> StreamAuthorizations \cup {NoOne}]
    BY DEF Typed, TypeOK, ConsentTyped
  <2>3. CASE k = SaleKey(s)
    BY <2>1, <2>2, <2>3 DEF StreamNonceMoves, OnceMore
  <2>4. CASE k # SaleKey(s)
    BY <2>1, <2>2, <2>4 DEF StreamNonceMoves, OnceMore
  <2>. QED
    BY <2>3, <2>4
<1>3. ASSUME NEW id, NEW a \in SaleAuthorizations, _useSaleAuthorization(id, a)
      PROVE  StreamNonceMoves(k)
  BY <1>1, <1>2, <1>3 DEF _useSaleAuthorization, SellerSigned
<1>. QED
  BY <1>1, <1>3, ConsentIsUsedByFunding
     DEF ConsentUnused, UsesConsent, _createAuthorizedOffer

(* A nonce is never used more often than the terms it stands for allow.    *)
UsesAreAllowed ==
    /\ \A k \in SaleKeys : authorizationDigests[k] # NoOne =>
          authorizationUses[k] <= authorizationDigests[k].maxUses
    /\ \A k \in StreamKeys : streamDigests[k] # NoOne =>
          streamUses[k] <= streamDigests[k].maxSales

LEMMA StepUsesAreAllowed ==
    ASSUME Typed, UsesAreAllowed, [Next]_vars
    PROVE  UsesAreAllowed'
<1>1. ASSUME NEW k \in SaleKeys, authorizationDigests'[k] # NoOne
      PROVE  authorizationUses'[k] <= authorizationDigests'[k].maxUses
  <2>1. authorizationUses[k] \in Nat
    BY DEF Typed, TypeOK, ConsentTyped
  <2>2. PICK a \in SaleAuthorizations :
           OnceMore(authorizationUses, authorizationDigests, k, a, a.maxUses,
                    authorizationUses', authorizationDigests')
    BY SaleNoncesMove DEF SaleNonceMoves
  <2>3. a.maxUses \in Nat
    BY ConsentAssumption
  <2>. QED
    BY <1>1, <2>1, <2>2, <2>3 DEF OnceMore, UsesAreAllowed
<1>2. ASSUME NEW k \in StreamKeys, streamDigests'[k] # NoOne
      PROVE  streamUses'[k] <= streamDigests'[k].maxSales
  <2>1. streamUses[k] \in Nat
    BY DEF Typed, TypeOK, ConsentTyped
  <2>2. PICK s \in StreamAuthorizations :
           OnceMore(streamUses, streamDigests, k, s, s.maxSales,
                    streamUses', streamDigests')
    BY StreamNoncesMove DEF StreamNonceMoves
  <2>3. s.maxSales \in Nat
    BY ConsentAssumption
  <2>. QED
    BY <1>2, <2>1, <2>2, <2>3 DEF OnceMore, UsesAreAllowed
<1>. QED
  BY <1>1, <1>2 DEF UsesAreAllowed

(* Rounded up, what the seller keeps is at least the share signed for.     *)
LEMMA RoundedUpIsEnough ==
    ASSUME NEW v \in Nat, NEW bps \in Nat, NEW n \in Int, n >= MulBpsUp(v, bps)
    PROVE  n * 10000 >= v * bps
<1>. DEFINE p == v * bps
            q == p \div 10000
            r == p % 10000
<1>1. p \in Nat
  OBVIOUS
<1>2. MulBpsUp(v, bps) = q + (IF r = 0 THEN 0 ELSE 1)
  BY DEF MulBpsUp, MulBps
<1>. HIDE DEF p
<1>3. p = 10000 * q + r /\ q \in Int /\ r \in Int /\ r < 10000 /\ r >= 0
  BY <1>1
<1>. HIDE DEF q, r
<1>4. CASE r = 0
  <2>1. n >= q
    BY <1>2, <1>3, <1>4
  <2>2. n * 10000 >= p
    BY <1>3, <1>4, <2>1
  <2>. QED
    BY <2>2 DEF p
<1>5. CASE r # 0
  <2>1. n >= q + 1
    BY <1>2, <1>3, <1>5
  <2>2. n * 10000 >= p
    BY <1>3, <1>5, <2>1
  <2>. QED
    BY <2>2 DEF p
<1>. QED
  BY <1>4, <1>5

(* An authorized funding, for the sale and the terms it is about.          *)
HonoursTerms(id, a) ==
    /\ Funds(id)
    /\ a.buyer \in {NoOne, Buyer(id)}
    /\ offers'[id].status = "Accepted"
    /\ offers'[id].seller = a.seller
    /\ offers'[id].material = a.material
    /\ offers'[id].gross = a.gross
    /\ offers'[id].sellerAmount * 10000 >= a.gross * a.minSellerBps

LEMMA AuthorizedFundingsHonourTerms ==
    ASSUME Typed, NEW id \in OfferIds, NEW a \in SaleAuthorizations,
           NEW reviewed \in BOOLEAN, UsesConsent(id, a, reviewed)
    PROVE  HonoursTerms(id, a)
<1>. DEFINE f == FundedOffer(id, a.seller, a.material, a.gross, reviewed)
            o == [f EXCEPT !.status = "Accepted", !.acceptedAt = now]
<1>1. PICK max \in Prices : _createAuthorizedOffer(id, a, max, reviewed)
  BY DEF UsesConsent
<1>2. /\ _useSaleAuthorization(id, a)
      /\ _createOffer(id, a.seller, a.gross, max, reviewed, o)
      /\ o.sellerAmount >= MulBpsUp(o.gross, a.minSellerBps)
  BY <1>1 DEF _createAuthorizedOffer
<1>3. /\ a.seller \in Accounts /\ a.material \in Materials /\ a.gross \in Nat
      /\ a.minSellerBps \in Nat
  <2>1. a.gross \in Prices /\ Prices \subseteq Nat
    <3>1. Prices \subseteq Nat
      BY PricesAssumption
    <3>. QED
      BY <3>1, ConsentAssumption
  <2>. QED
    BY <2>1, ConsentAssumption
<1>4. f.seller = a.seller /\ f.material = a.material /\ f.gross = a.gross
  BY DEF FundedOffer, NoOffer
<1>5. /\ offers[id].status = "None" /\ offers' = [offers EXCEPT ![id] = o]
      /\ a.gross >= ServiceFee(tariff)
  <2>. HIDE DEF o
  <2>. QED
    BY <1>2 DEF _createOffer
<1>6. f \in OfferType
  BY <1>3, <1>5, FundedOfferTyped, Zenon
<1>. HIDE DEF f
<1>7. /\ o \in OfferType /\ o.status = "Accepted" /\ o.seller = a.seller
      /\ o.material = a.material /\ o.gross = a.gross
  <2>1. now \in Nat
    BY DEF Typed, TypeOK
  <2>. QED
    BY <1>4, <1>6, <2>1 DEF OfferType, Statuses
<1>. HIDE DEF o
<1>8. o.sellerAmount \in Nat
  BY <1>7 DEF OfferType
<1>9. o.sellerAmount * 10000 >= a.gross * a.minSellerBps
  BY <1>2, <1>3, <1>7, <1>8, RoundedUpIsEnough
<1>10. offers'[id] = o
  BY <1>5 DEF Typed, TypeOK, SalesTyped
<1>11. a.buyer \in {NoOne, Buyer(id)}
  BY <1>2 DEF _useSaleAuthorization
<1>. QED
  BY <1>5, <1>7, <1>9, <1>10, <1>11 DEF HonoursTerms, Funds

(* A use of a seller's consent funds a sale on the terms signed, and no    *)
(* nonce is used beyond them or once revoked, whoever funds, in whatever   *)
(* order sales, revocations and changes of tariff come                     *)
(* (_useSaleAuthorization, revokeSaleAuthorization).                       *)
THEOREM ConsentIsAlwaysHonoured == Spec => ConsentIsHonoured
<1>. DEFINE Honoured ==
              \A k \in SaleKeys : authorizationUses'[k] # authorizationUses[k] =>
                LET a == authorizationDigests'[k] IN
                \E id \in OfferIds :
                    /\ Funds(id)
                    /\ a.buyer \in {NoOne, Buyer(id)}
                    /\ offers'[id].status = "Accepted"
                    /\ offers'[id].seller = a.seller
                    /\ offers'[id].material = a.material
                    /\ offers'[id].gross = a.gross
                    /\ offers'[id].sellerAmount * 10000 >= a.gross * a.minSellerBps
            Bounded ==
              /\ \A k \in SaleKeys :
                    /\ authorizationDigests[k] # NoOne =>
                          authorizationDigests'[k] = authorizationDigests[k]
                    /\ authorizationDigests'[k] # NoOne =>
                          authorizationUses'[k] <= authorizationDigests'[k].maxUses
                    /\ authorizationRevoked[k] =>
                          authorizationUses'[k] = authorizationUses[k]
              /\ \A k \in StreamKeys :
                    /\ streamDigests'[k] # NoOne =>
                          streamUses'[k] <= streamDigests'[k].maxSales
                    /\ authorizationRevoked[k] => streamUses'[k] = streamUses[k]
<1>1. ASSUME Typed, [Next]_vars, NEW k \in SaleKeys,
             authorizationUses'[k] # authorizationUses[k]
      PROVE  \E id \in OfferIds : HonoursTerms(id, authorizationDigests'[k])
  <2>1. ~ConsentUnused
    BY <1>1 DEF ConsentUnused
  <2>2. PICK id \in OfferIds, a \in SaleAuthorizations, reviewed \in BOOLEAN :
           UsesConsent(id, a, reviewed)
    BY <1>1, <2>1, ConsentIsUsedByFunding
  <2>3. _useSaleAuthorization(id, a)
    BY <2>2 DEF UsesConsent, _createAuthorizedOffer
  <2>4. /\ authorizationUses \in [SaleKeys -> Nat]
        /\ authorizationDigests \in [SaleKeys -> SaleAuthorizations \cup {NoOne}]
    BY <1>1 DEF Typed, TypeOK, ConsentTyped
  <2>5. authorizationDigests'[k] = a
    BY <1>1, <2>3, <2>4 DEF _useSaleAuthorization
  <2>. QED
    BY <1>1, <2>2, <2>5, AuthorizedFundingsHonourTerms
<1>2. ASSUME Typed, [Next]_vars PROVE Honoured
  BY <1>1, <1>2 DEF HonoursTerms
<1>3. ASSUME Typed, UsesAreAllowed, [Next]_vars PROVE Bounded
  <2>1. UsesAreAllowed'
    BY <1>3, StepUsesAreAllowed
  <2>2. ASSUME NEW k \in SaleKeys
        PROVE  /\ authorizationDigests[k] # NoOne =>
                     authorizationDigests'[k] = authorizationDigests[k]
               /\ authorizationRevoked[k] =>
                     authorizationUses'[k] = authorizationUses[k]
    BY <1>3, SaleNoncesMove DEF SaleNonceMoves, OnceMore
  <2>3. ASSUME NEW k \in StreamKeys, authorizationRevoked[k]
        PROVE  streamUses'[k] = streamUses[k]
    BY <1>3, <2>3, StreamNoncesMove DEF StreamNonceMoves, OnceMore
  <2>. QED
    BY <2>1, <2>2, <2>3 DEF UsesAreAllowed
<1>4. Init => UsesAreAllowed
  BY DEF Init, UsesAreAllowed
<1>5. Spec => []UsesAreAllowed
  <2>1. Typed /\ UsesAreAllowed /\ [Next]_vars => UsesAreAllowed'
    BY StepUsesAreAllowed
  <2>. QED
    BY <1>4, <2>1, AlwaysTyped, PTL DEF Spec
<1>6. Typed /\ UsesAreAllowed /\ [Next]_vars => [Honoured]_vars /\ [Bounded]_vars
  BY <1>2, <1>3
<1>7. ConsentIsHonoured <=> [][Honoured]_vars /\ [][Bounded]_vars
  BY DEF ConsentIsHonoured, AuthorizedSalesHonourTerms, ConsentIsBounded
<1>. QED
  BY <1>5, <1>6, <1>7, AlwaysTyped, PTL DEF Spec

-----------------------------------------------------------------------------
(* Reviews.  A funding is independent on the word of a review of exactly   *)
(* the inputs it is funded with.                                           *)

FundedAsSeen(id, o, d) ==
    /\ d.id = id /\ d.seller = o.seller /\ d.material = o.material
    /\ d.tariff = tariff
    /\ o.referrer \in {NoOne, d.attribution.referrer}
    /\ o.buyerDiscount = d.buyerDiscount
    /\ o.sellerAmount = o.gross - ServiceFee(d.tariff) + d.sellerDiscount

LEMMA OffersAreFundedAsSeen ==
    ASSUME Typed, NEW id \in OfferIds, NEW seller \in Accounts,
           NEW material \in Materials, NEW gross \in Nat,
           NEW reviewed \in BOOLEAN, gross >= ServiceFee(tariff)
    PROVE  LET f == FundedOffer(id, seller, material, gross, reviewed)
               d == InputDigest(id, seller, material, gross)
           IN  /\ FundedAsSeen(id, f, d)
               /\ FundedAsSeen(id, [f EXCEPT !.status = "Accepted",
                                             !.acceptedAt = now], d)
<1>. DEFINE f == FundedOffer(id, seller, material, gross, reviewed)
            d == InputDigest(id, seller, material, gross)
<1>1. /\ f.seller = seller /\ f.material = material /\ f.gross = gross
      /\ f.buyerDiscount = HolderDiscount(Buyer(id), Buyer(id))
      /\ f.sellerAmount = gross - ServiceFee(tariff) + HolderDiscount(Buyer(id), seller)
      /\ f.referrer \in {NoOne, attributions[seller].referrer}
  BY DEF FundedOffer, NoOffer
<1>2. /\ d.id = id /\ d.seller = seller /\ d.material = material
      /\ d.attribution = attributions[seller] /\ d.tariff = tariff
      /\ d.buyerDiscount = HolderDiscount(Buyer(id), Buyer(id))
      /\ d.sellerDiscount = HolderDiscount(Buyer(id), seller)
  BY DEF InputDigest
<1>3. f \in OfferType
  BY FundedOfferTyped, Zenon
<1>. HIDE DEF f, d
<1>4. FundedAsSeen(id, f, d)
  BY <1>1, <1>2 DEF FundedAsSeen
<1>. DEFINE o == [f EXCEPT !.status = "Accepted", !.acceptedAt = now]
<1>5. /\ o.seller = f.seller /\ o.material = f.material /\ o.gross = f.gross
      /\ o.buyerDiscount = f.buyerDiscount /\ o.sellerAmount = f.sellerAmount
      /\ o.referrer = f.referrer
  BY <1>3 DEF OfferType
<1>. HIDE DEF o
<1>6. FundedAsSeen(id, o, d)
  BY <1>4, <1>5 DEF FundedAsSeen
<1>. QED
  BY <1>4, <1>6 DEF f, d, o

(* The sale o that a step puts in place of id, if it is independent, has a *)
(* current review.                                                         *)
ReviewedNow(id) ==
    offers'[id].independent =>
        \E d \in CurrentReviews : FundedAsSeen(id, offers'[id], d)

LEMMA FundingsAreReviewed ==
    ASSUME Typed, Funding, NEW id \in OfferIds, Funds(id)
    PROVE  ReviewedNow(id)
<1>0. /\ offers \in [OfferIds -> OfferType]
      /\ \A g \in Prices : g \in Nat
  BY PricesAssumption DEF Typed, TypeOK, SalesTyped
<1>1. ASSUME NEW i \in OfferIds, NEW sel \in Sellers, NEW m \in Materials,
             NEW g \in Prices, NEW max \in Prices, createOffer(i, sel, m, g, max)
      PROVE  ReviewedNow(id)
  <2>. DEFINE d == InputDigest(i, sel, m, g)
              rev == d \in reviewedInputs
              o == FundedOffer(i, sel, m, g, rev)
  <2>1. _createOffer(i, sel, g, max, rev, o)
    BY <1>1 DEF createOffer
  <2>2. o.independent => rev
    BY DEF FundedOffer, NoOffer
  <2>3. /\ offers' = [offers EXCEPT ![i] = o] /\ g >= ServiceFee(tariff)
        /\ sel \in Accounts /\ g \in Nat /\ rev \in BOOLEAN
    <3>. HIDE DEF o
    <3>. QED
      BY <1>0, <2>1, AccountsAssumption DEF _createOffer
  <2>4. FundedAsSeen(i, o, d)
    <3>. HIDE DEF rev
    <3>. QED
      BY <2>3, OffersAreFundedAsSeen, Zenon
  <2>. HIDE DEF o
  <2>5. i = id /\ offers'[id] = o
    BY <1>0, <2>3 DEF Funds
  <2>. QED
    BY <2>2, <2>4, <2>5 DEF ReviewedNow, CurrentReviews
<1>2. ASSUME NEW i \in OfferIds, NEW a \in SaleAuthorizations, NEW max \in Prices,
             NEW rev \in BOOLEAN, _createAuthorizedOffer(i, a, max, rev),
             rev => InputDigest(i, a.seller, a.material, a.gross) \in CurrentReviews
      PROVE  ReviewedNow(id)
  <2>. DEFINE d == InputDigest(i, a.seller, a.material, a.gross)
              f == FundedOffer(i, a.seller, a.material, a.gross, rev)
              o == [f EXCEPT !.status = "Accepted", !.acceptedAt = now]
  <2>1. _createOffer(i, a.seller, a.gross, max, rev, o)
    BY <1>2 DEF _createAuthorizedOffer
  <2>2. f.independent => rev
    BY DEF FundedOffer, NoOffer
  <2>3. /\ offers' = [offers EXCEPT ![i] = o] /\ a.gross >= ServiceFee(tariff)
        /\ a.seller \in Accounts /\ a.gross \in Nat /\ a.material \in Materials
    <3>. HIDE DEF o
    <3>. QED
      BY <1>0, <2>1, ConsentAssumption DEF _createOffer
  <2>4. f \in OfferType
    BY <2>3, FundedOfferTyped, Zenon
  <2>5. FundedAsSeen(i, o, d)
    BY <2>3, OffersAreFundedAsSeen, Zenon
  <2>6. o.independent = f.independent
    <3>. HIDE DEF f
    <3>. QED
      BY <2>4 DEF OfferType
  <2>. HIDE DEF o, f
  <2>7. i = id /\ offers'[id] = o
    BY <1>0, <2>3 DEF Funds
  <2>. QED
    BY <1>2, <2>2, <2>5, <2>6, <2>7 DEF ReviewedNow
<1>3. ASSUME NEW i \in OfferIds, NEW a \in SaleAuthorizations, NEW max \in Prices,
             createAuthorizedOffer(i, a, max)
      PROVE  ReviewedNow(id)
  <2>. DEFINE d == InputDigest(i, a.seller, a.material, a.gross)
              rev == d \in reviewedInputs
  <2>1. _createAuthorizedOffer(i, a, max, rev) /\ rev \in BOOLEAN
    BY <1>3 DEF createAuthorizedOffer
  <2>2. rev => d \in CurrentReviews
    BY DEF CurrentReviews
  <2>. HIDE DEF rev
  <2>. QED
    BY <1>2, <2>1, <2>2
<1>4. ASSUME NEW i \in OfferIds, NEW a \in SaleAuthorizations, NEW max \in Prices,
             NEW v \in signedReviews, createReviewedAuthorizedOffer(i, a, max, v)
      PROVE  ReviewedNow(id)
  <2>1. /\ _createAuthorizedOffer(i, a, max, TRUE)
        /\ now < v.validUntil /\ v.signer = operator
        /\ v.inputDigest = InputDigest(i, a.seller, a.material, a.gross)
    BY <1>4 DEF createReviewedAuthorizedOffer
  <2>2. InputDigest(i, a.seller, a.material, a.gross) \in CurrentReviews
    BY <2>1 DEF CurrentReviews
  <2>. QED
    BY <1>2, <2>1, <2>2
<1>. QED
  BY <1>1, <1>3, <1>4 DEF Funding

(* An independent sale is funded on the word of a review, unexpired and by *)
(* the operator of the day, of the very tariff, attribution and discounts  *)
(* it is funded with (_inputDigest, reviewOffer,                            *)
(* createReviewedAuthorizedOffer).                                          *)
THEOREM ReviewsAreAlwaysCurrent == Spec => ReviewsAreCurrent
<1>. DEFINE Current ==
              \A id \in OfferIds : Funds(id) /\ offers'[id].independent =>
                \E d \in CurrentReviews :
                    LET o == offers'[id] IN
                    /\ d.id = id /\ d.seller = o.seller /\ d.material = o.material
                    /\ d.tariff = tariff
                    /\ o.referrer \in {NoOne, d.attribution.referrer}
                    /\ o.buyerDiscount = d.buyerDiscount
                    /\ o.sellerAmount = o.gross - ServiceFee(d.tariff) + d.sellerDiscount
<1>1. ASSUME Typed, [Next]_vars, NEW id \in OfferIds, Funds(id)
      PROVE  ReviewedNow(id)
  <2>1. ~CaseMoves(id)
    BY <1>1 DEF CaseMoves, dispute, MayDispute, respondToDispute, MayWaive,
                waiveDisputeResponseWindow, voteDispute, finalizeExpiredDispute, Funds
  <2>2. SaleMoves(id)
    BY <1>1, <2>1, EverySaleMoves
  <2>3. Funding
    BY <1>1, <2>2 DEF SaleMoves, Funds, Forward
  <2>. QED
    BY <1>1, <2>3, FundingsAreReviewed
<1>2. ASSUME Typed, [Next]_vars PROVE Current
  BY <1>1, <1>2 DEF ReviewedNow, FundedAsSeen
<1>3. Typed /\ [Next]_vars => [Current]_vars
  BY <1>2
<1>4. ReviewsAreCurrent <=> [][Current]_vars
  BY DEF ReviewsAreCurrent
<1>. QED
  BY <1>3, <1>4, AlwaysTyped, PTL DEF Spec
=============================================================================
