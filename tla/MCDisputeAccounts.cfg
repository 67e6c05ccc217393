\* Two disputes share the contract and its ETH.
SPECIFICATION Spec
CONSTANTS
    EventIds = {e1, e2}
    Resolvers = {r1, r2}
    Accounts = {r1, r2, treasury}
    Disputers = {r1}
    Treasury = treasury
    Specs <- QuickSpecs
    OccurredAt = {}
    MaxWindow = 1
    MaxAge = 1
    BondUnit = 4
    CommitteeSize <- PairCommittees
    TierWindow <- UnitWindows
    SeedCommitWindow = 0
    SeedRevealWindow = 1
    MaxTierAge = 1
ACTION_CONSTRAINT SharedFunds
SYMMETRY EventSymmetry
INVARIANTS
    Solvent
