\* Lists of operands and chains of composites beyond the limits.
SPECIFICATION Spec
CONSTANTS
    EventIds <- MCOneEvent
    CompositeIds <- MCThreeComposites
    Ops <- MCSomeOps
    Windows = {0}
    MaxOperands = 3
    MaxChildren = 2
    MaxDepth = 2
    MaxTime = 1
INVARIANTS
    TypeOK
    WellFounded
    OneIdPerClaim
PROPERTY
    ImplementsFeed
CHECK_DEADLOCK FALSE
