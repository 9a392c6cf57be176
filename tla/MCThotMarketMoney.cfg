SPECIFICATION Spec
ACTION_CONSTRAINT MoneyBound
CONSTANTS
    b = b
    s = s
    r1 = r1
    r2 = r2
    vault = vault
    op = op
    m1 = m1
    policy = policy
    NoOne = NoOne
    Accounts = {b, s, r1, r2, vault, op}
    AcquisitionVault = vault
    ProtocolRecipient = op
    InitialOperator = op
    InitialTariff <- Cheap
    MaxReferralDepth = 3
    QuoteLifetime = 1
    DeliveryWindow = 1
    DisputeWindow = 1
    DisputeVoteWindow = 1
    ReviewLifetime = 1
    Reviewers = {r2}
    DisputeThreshold = 1
    OfferIds <- ThreeOffers
    Sellers = {s, r1, r2}
    Materials <- OneMaterial
    Prices = {100}
    Tariffs = {}
    DiscountPolicies = {policy}
    Rates = {0, 3500}
    Referrers = {s, r1, r2}
    SaleAuthorizations = {}
    StreamAuthorizations = {}
    Signatures = {}
    GovernanceOps = {}
    MinQualifyingSpend = 100
    MaxReviews = 2
    GovernanceDelay = 0
    SellerResponseWindow = 1
    ReferralTerm = 1
    ReferralActivationWindow = 1
    MaxTime = 3
    LastFunding = 2
INVARIANTS
    Solvent
    ReferralsAreEarned
PROPERTIES
    ImplementsEscrow
CHECK_DEADLOCK FALSE
