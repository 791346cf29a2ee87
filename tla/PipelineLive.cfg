SPECIFICATION FairSpec
CONSTANTS
    w1 = w1
    w2 = w2
    c1 = c1
    m1 = m1
    m2 = m2
    m3 = m3
    r1 = r1
    p1 = p1
    NoPeriod = NoPeriod
    NoRule = NoRule
    NoEvent = NoEvent
    NoWorker = NoWorker
    Sender <- MCOneWorker
    Period <- MCPeriod
    Limit <- MCLimit
    Event <- MCAnswer
    Kind <- MCAnswerKind
    Rule <- MCRule
    Config <- MCAskTwice
    Matches <- MCAnswerMatches
    MaxCount = 99
    WebhookAttempts = 4
    ExecutionAttempts = 3
    MaxStalls = 1
    MaxCaptureAttempts = 3
    MaxFaults = 1
    MaxEdits = 1
    MaxUpsets = 1
PROPERTIES
    EventsSettle
    JobsEnd
