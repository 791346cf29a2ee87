SPECIFICATION Spec
CONSTANTS
    h1 = h1
    h2 = h2
    o1 = o1
    o2 = o2
    NoOrder = NoOrder
    Handler <- MCHandlers
    Order <- MCOrders
    Days <- MCMonths
    ReminderDays = 1
    MaxRedemptions = 2
    MaxPerOrg = 1
    LastDay = 3
    MaxUpsets = 1
CHECK_DEADLOCK FALSE
SYMMETRY Symmetry
INVARIANTS
    BillingTypeOK
    BooksBalance
    SettledPaymentsStaySettled
    PaidPeriodKept
    LapsedOwnersAreMailed
    NoticesOnce
