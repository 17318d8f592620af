SPECIFICATION Spec
CONSTANTS
    MaxOrders = 3
    MaxCleanups = 0
    MinCoin = 2
    OrderQty = 3
    InitialIDR = 6
    Enabled = {"lostCancelReply", "lostMessage"}
INVARIANT OneLiveOrder
CHECK_DEADLOCK FALSE
