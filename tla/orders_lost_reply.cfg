SPECIFICATION Spec
CONSTANTS
    MaxOrders = 3
    MaxCleanups = 0
    MinCoin = 1
    OrderQty = 2
    InitialIDR = 4
    Enabled = {"done", "lostCancelReply", "lostTradeReply"}
INVARIANT RefundedWithinReleased
PROPERTY OverIsFinal
CHECK_DEADLOCK FALSE
