SPECIFICATION Spec
CONSTANTS
    MaxOrders = 3
    InitialIDR = 2
    MaxAmount = 2
INVARIANT Solvent
CHECK_DEADLOCK FALSE
