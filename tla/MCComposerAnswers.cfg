\* Every operator over a composite of two events, resolved at two instants.
SPECIFICATION KeeperSpec
CONSTANTS
    EventIds <- MCTwoEvents
    CompositeIds <- MCTwoComposites
    Ops <- MCAllOps
    Windows = {0}
    MaxOperands = 2
    MaxChildren = 2
    MaxDepth = 2
    MaxTime = 1
ACTION_CONSTRAINT Nested
INVARIANTS
    VerdictStands
    AnswersFromEvents
PROPERTY
    KeeperSettles
CHECK_DEADLOCK FALSE
