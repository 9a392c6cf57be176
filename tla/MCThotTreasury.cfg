SPECIFICATION TreasurySpec
CONSTANTS
    People = {p1}
    Nobody = Nobody
    Governor = Governor
    Owners = {p1}
    FirstOperator = p1
    Shared = TRUE
    RESERVE = 6
    Supply = 9
    MaxCampaigns = 1
    Acquisitions = {a1}
    Budgets = {3}
    Upfronts = {0, 1}
    Durations = {2}
    Grosses = {1, 2}
    MaxTime = 3
    Stakers = {s1}
    BPS = 10
    MAX_ACTIVE_POSITIONS = 2
    MIN_DURATION = 1
    MAX_DURATION = 1
    MAX_TERMS = 1
    MaxStakingCampaigns = 1
    MaxPositions = 2
    Menus <- OneMenu
    Caps = {3}
    Amounts = {1}
    Times = {1, 3}
    MaxFunds = 9
INVARIANTS
    PromisesAreBacked
PROPERTIES
    ImplementsPool
CHECK_DEADLOCK FALSE
