SPECIFICATION FairSpec
CONSTANTS
    Objects <- MCObjects
    Budgets <- MCBudgets
INVARIANT MonitorInv
PROPERTY ComesBack
PROPERTY MutexIsReleased
CHECK_DEADLOCK FALSE
