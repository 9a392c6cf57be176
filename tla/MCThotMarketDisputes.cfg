SPECIFICATION FairSpec
CONSTANTS
    b = b
    s = s
    r1 = r1
    r2 = r2
    vault = vault
    op = op
    m1 = m1
    policy = policy
    NoOne = NoOne
    Accounts = {b, s, r1, r2, vault, op}
    AcquisitionVault = vault
    ProtocolRecipient = op
    InitialOperator = op
    InitialTariff <- Cheap
    MaxReferralDepth = 3
    QuoteLifetime = 1
    DeliveryWindow = 1
    DisputeWindow = 1
    DisputeVoteWindow = 2
    ReviewLifetime = 1
    Reviewers = {b, r1, r2}
    DisputeThreshold = 2
    OfferIds <- DisputeOffers
    Sellers = {s}
    Materials <- OneMaterial
    Prices = {100}
    Tariffs = {}
    DiscountPolicies = {}
    Rates = {0}
    Referrers = {r1}
    SaleAuthorizations = {}
    StreamAuthorizations = {}
    Signatures = {}
    GovernanceOps <- OnlyPause
    MinQualifyingSpend = 100
    MaxReviews = 1
    GovernanceDelay = 1
    SellerResponseWindow = 2
    ReferralTerm = 4
    ReferralActivationWindow = 2
    MaxTime = 9
    LastFunding = 1
INVARIANTS
    SellerIsHeard
    OutcomeIsTheQuorums
PROPERTIES
    RulingsAreFinal
    EveryOfferSettles
CHECK_DEADLOCK FALSE
