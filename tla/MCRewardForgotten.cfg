\* Two fees of the same amount, one after the other.
SPECIFICATION DutySpec
CONSTANTS
    EventIds <- MCEvents
    CompositeIds <- MCComposites
    Operands <- MCOperands
    Resolvers = {n}
    Groups <- MCGroups
    Amounts = {3}
    Withdrawals = {2}
    MaxIds = 1
    MaxIncome = 6
    Node = n
    n = n
PROPERTY
    ClaimsItsShare
CHECK_DEADLOCK FALSE
