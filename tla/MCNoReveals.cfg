\* Everyone committed to the seed, nobody revealed.
SPECIFICATION FairSpec
CONSTANTS
    EventIds = {e1}
    Resolvers = {r1, r2}
    Accounts = {r1, r2, treasury}
    Disputers = {r1}
    Treasury = treasury
    Specs <- SoloSpecs
    OccurredAt = {}
    MaxWindow = 2
    MaxAge = 2
    BondUnit = 4
    CommitteeSize <- SoleMembers
    TierWindow <- UnitWindows
    SeedCommitWindow = 1
    SeedRevealWindow = 1
    MaxTierAge = 2
ACTION_CONSTRAINT PoolFixed
PROPERTIES
    NoRevealsNoStall
