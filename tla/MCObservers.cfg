\* Two adapters that must answer alike for every resolver, and the lister.
SPECIFICATION ObserversSpec
CONSTANTS
    Prices = {1, 2}
    Threshold = 2
    At = 2
    MaxStaleness = 1
    SettleGrace = 2
    MaxLag = 1
    MaxRounds = 6
    MaxSeconds = 5
    Questions <- MCQuestions
    Multipliers = {100, 110}
    Lookback = 2
    ActionGrace = 1
    MaxNotice = 1
    NodeLag = 1
    MaxBlocks = 5
    MaxSteps = 2
    Feeds <- MCFeeds
    WeekdaysOnly = {1}
    DayLength = 8
    CloseTime = 6
    MinLead = 2
    DueLead = 1
    FirstDay = 5
    MaxPerPass = 1
    MaxTime = 12
    MaxFaults = 1
ACTION_CONSTRAINT OneAtWork
INVARIANTS
    AnswersTheLastRound
    DecidedAsHappened
    NotListedTwice
CHECK_DEADLOCK FALSE
