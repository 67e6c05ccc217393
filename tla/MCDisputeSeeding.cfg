\* Tier 1 is drawn by commit-reveal from a pool of three.
SPECIFICATION Spec
CONSTANTS
    EventIds = {e1}
    Resolvers = {r1, r2, r3}
    Accounts = {r1, r2, r3, treasury}
    Disputers = {r1, r2, r3}
    Treasury = treasury
    Specs <- SoloSpecs
    OccurredAt = {}
    MaxWindow = 2
    MaxAge = 2
    BondUnit = 4
    CommitteeSize <- MixedCommittees
    TierWindow <- UnitWindows
    SeedCommitWindow = 1
    SeedRevealWindow = 1
    MaxTierAge = 2
ACTION_CONSTRAINT SeedingOnly
SYMMETRY ResolverSymmetry
INVARIANTS
    TierCountsAgree
PROPERTIES
    CommitteeDrawnFairly
    VotersMadeWhole
