SPECIFICATION Spec
CONSTANTS
    h1 = h1
    h2 = h2
    o1 = o1
    o2 = o2
    NoOrder = NoOrder
    Handler <- MCHandlers
    Order <- MCOrder
    Days <- MCDays
    ReminderDays = 1
    MaxRedemptions = 2
    MaxPerOrg = 1
    LastDay = 2
    MaxUpsets = 0
CHECK_DEADLOCK FALSE
INVARIANTS
    ActivatedOnce
