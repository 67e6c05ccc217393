\* Quorums of three resolvers, and batches of two events.
SPECIFICATION RegSpec
CONSTANTS
    EventIds = {e1, e2}
    Resolvers = {r1, r2, r3}
    Specs <- MCSpecs
    OccurredAt <- MCOccurredAt
    MaxWindow = 3
    MaxAge = 3
SYMMETRY RegSymmetry
ACTION_CONSTRAINT OneEventOrTwoResolvers
INVARIANTS
    RegTypeOK
    CountsAgree
    QuorumBacked
    PhaseConsistent
PROPERTIES
    FinalizedAsProposed
    HistoryIsKept
    ImplementsLifecycle
