SPECIFICATION Spec
CONSTANTS
    c1 = c1
    c2 = c2
    Pairs = {c1, c2}
    MaxPositions = 2
    MaxOrders = 3
    MaxStarts = 0
    MaxConcurrent = 1
    PositionIDR = 1
    InitialIDR = 2
    UserCoins = 1
    Enabled = {"external", "lostMessage", "cancelFails", "refused", "lostReply", "falsePump",
               "priceMoves"}
INVARIANT PositionInv
INVARIANT WithinLimits
INVARIANT SellsOnlyWhatItBought
INVARIANT BalanceBooked
CHECK_DEADLOCK FALSE
SYMMETRY PairSymmetry
