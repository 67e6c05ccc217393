\* One daemon and one other resolver, one event, through both tiers.
SPECIFICATION NodeSpec
CONSTANTS
    e1 = e1
    EventIds <- OneEvent
    Index <- Indexed
    MaxFailures = 1
    Resolvers = {n, r}
    Accounts = {n, r, treasury}
    Disputers = {r}
    Treasury = treasury
    Specs <- PairSpecs
    OccurredAt = {}
    MaxWindow = 2
    MaxAge = 2
    BondUnit = 3
    CommitteeSize <- Committees
    TierWindow <- UnitWindows
    SeedCommitWindow = 1
    SeedRevealWindow = 1
    MaxTierAge = 2
    Node = n
    Malformed = {}
ACTION_CONSTRAINT Focus
INVARIANTS
    MemoryIsTrue
PROPERTIES
    NothingStaysDue
    KeeperEndsEvents
