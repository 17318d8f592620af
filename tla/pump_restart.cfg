SPECIFICATION FairSpec
CONSTANTS
    c1 = c1
    c2 = c2
    Pairs = {c1}
    MaxPositions = 1
    MaxOrders = 3
    MaxStarts = 1
    MaxConcurrent = 1
    PositionIDR = 2
    InitialIDR = 2
    UserCoins = 0
    Enabled = {"repeat", "partial", "late", "falsePump", "stop", "crash"}
 
 
CHECK_DEADLOCK FALSE
PROPERTY FillIsBooked
