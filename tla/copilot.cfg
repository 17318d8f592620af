SPECIFICATION FairSpec
CONSTANTS
    MaxTrades = 2
    MaxOrders = 3
    c1 = c1
    c2 = c2
    Clients <- MCClients
    UserCoins = 0
    PaperIDR = 1
    MaxCrashes = 1
    MaxRefusals = 1
    Recognised = TRUE
 
 
INVARIANT IndexMatches
 
CHECK_DEADLOCK FALSE
