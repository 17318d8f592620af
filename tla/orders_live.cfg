SPECIFICATION FairSpec
CONSTANTS
    MaxOrders = 3
    MaxCleanups = 0
    MinCoin = 1
    OrderQty = 2
    InitialIDR = 4
    Enabled = {"done", "lostCancelReply"}
INVARIANT Accounts
INVARIANT TypeOK
INVARIANT CreditedWithinExecuted
PROPERTY ImplementsLedger
PROPERTY FillsAreCredited
PROPERTY PendingIsResolved
PROPERTY CancelledIsRefunded
PROPERTY ClosedOrderIsDropped
CHECK_DEADLOCK FALSE
