SPECIFICATION Spec
CONSTANTS
    MaxOrders = 2
    MaxCleanups = 1
    MinCoin = 1
    OrderQty = 2
    InitialIDR = 4
    Enabled = {"done", "lostCancelReply", "lostMessage", "critical", "stop"}
 
INVARIANT RefundOnlyIfCancelled
CHECK_DEADLOCK FALSE
