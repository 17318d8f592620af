SPECIFICATION FairSpec
CONSTANTS
    Pairs <- MCPairs
    Settings <- MCSettings
    MinScore = 2
    DropThreshold = 2
    StopLossPercent = 5
    TrailingStopPercent = 5
    MaxHold = 1
    MaxConcurrent = 1
    LossLimit = 2
    Cooldown = 1
    Minute = 1
    Day = 1
    MaxTrades = 3
    MaxRefusals = 1
INVARIANT RulesInv
PROPERTY ConfirmedTwice
PROPERTY StopLossActs
PROPERTY DailyLossEnds
CHECK_DEADLOCK FALSE
