SPECIFICATION FairSpec
CONSTANTS
    Clients <- MCClients
    UserOf <- MCUserOf
    Capacity = 1
    MaxVersion = 2
    MaxMessages = 1
    MaxLost = 1
INVARIANT HubInv
INVARIANT LatestIsShown
PROPERTY NeverOlder
PROPERTY EndedIsForgotten
CHECK_DEADLOCK FALSE
