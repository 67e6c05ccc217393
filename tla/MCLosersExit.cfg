\* A trader leaves the losing side although the answer is known.
SPECIFICATION AppSpec
CONSTANTS
    EventIds <- MCEvents
    CompositeIds <- MCComposites
    Operands <- MCOperands
    Resolvers = {a, b}
    Groups <- MCGroups
    Amounts = {7}
    Withdrawals = {2}
    MaxIds = 1
    MaxIncome = 14
    MarketIds = {m}
    Traders = {s, t}
    StakeAmounts = {30}
    FeeBps = 500
    CloseTimes = {1}
    MaxTime = 3
    MaxPool = 120
    DistIds = {d1}
    Ladders <- MCLadders
    DistTraders = {s, t}
    BuyAmounts = {20}
    SellAmounts = {5}
    TradeFeeBps = 500
    Weight <- MCWeight
    DistCloseTimes = {1}
    MaxTrades = 3
    PoolIds = {p}
    Players = {x, y, z}
    Outcomes = {0, 1}
    PlayAmounts = {3, 4}
    Times <- MCTimes
    Window = 1
    MaxStake = 12
    a = a
    b = b
    s = s
    t = t
    m = m
    p = p
    d1 = d1
    x = x
    y = y
    z = z
ACTION_CONSTRAINT OneApplication
PROPERTY
    NobodyLeavesLate
CHECK_DEADLOCK FALSE
