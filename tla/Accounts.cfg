SPECIFICATION Spec
CONSTANTS
    h1 = h1
    h2 = h2
    a1 = a1
    a2 = a2
    i1 = i1
    NoOrg = NoOrg
    Handler <- MCHandlers
    Org <- MCOrgs
    Identity <- MCIdentities
    MaxAccounts = 1
    MaxRules = 1
    TokenDays = 3
    RefreshDays = 2
    WarnDays = 1
    MaxAutomations = 1
    MaxUpsets = 3
SYMMETRY Symmetry
INVARIANTS
    AccountsTypeOK
    RulesFollowAccount
    TokensFitWorkspace
    FlagsAreEarned
PROPERTIES
    TakeoversCross
