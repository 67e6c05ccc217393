\* Both tiers seat the whole pool of three.
SPECIFICATION Spec
CONSTANTS
    EventIds = {e1}
    Resolvers = {r1, r2, r3}
    Accounts = {r1, r2, r3, treasury}
    Disputers = {r1, r2, r3}
    Treasury = treasury
    Specs <- PairSpecs
    OccurredAt = {}
    MaxWindow = 2
    MaxAge = 2
    BondUnit = 5
    CommitteeSize <- WholePool
    TierWindow <- UnitWindows
    SeedCommitWindow = 1
    SeedRevealWindow = 1
    MaxTierAge = 2
ACTION_CONSTRAINT OwnerActs
SYMMETRY ResolverSymmetry
INVARIANTS
    TypeOK
    CaseMatchesStatus
    AgreementDecides
PROPERTIES
    DisputerMadeWhole
    DisputedInTime
