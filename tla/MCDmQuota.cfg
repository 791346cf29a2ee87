SPECIFICATION QuotaSpec
CONSTANTS
    s1 = s1
    s2 = s2
    s3 = s3
    p1 = p1
    p2 = p2
    NoPeriod = NoPeriod
    Sender <- MCSender
    Period <- MCPeriod
    Limit <- MCLimit
    MaxCount = 2
SYMMETRY Symmetry
INVARIANTS
    QuotaTypeOK
    CounterAccountsForAll
    NeverOversold
