SPECIFICATION Spec
CONSTANTS
    w1 = w1
    w2 = w2
    c1 = c1
    m1 = m1
    m2 = m2
    m3 = m3
    r1 = r1
    p1 = p1
    NoPeriod = NoPeriod
    NoRule = NoRule
    NoEvent = NoEvent
    NoWorker = NoWorker
    Sender <- MCWorkers
    Period <- MCPeriod
    Limit <- MCLimit
    Event <- MCMeeting
    Kind <- MCMeetingKind
    Rule <- MCRule
    Config <- MCAskTwice
    Matches <- MCMeetingMatches
    MaxCount = 99
    WebhookAttempts = 4
    ExecutionAttempts = 3
    MaxStalls = 1
    MaxCaptureAttempts = 3
    MaxFaults = 1
    MaxEdits = 0
    MaxUpsets = 1
SYMMETRY Symmetry
INVARIANTS
    PipelineTypeOK
    DuplicatesCostFaults
    EveryDmCharged
    LedgerTellsTheTruth
    StopIsHeeded
    DoneMeansSettled
    StopStays
    AnswersCountOnce
PROPERTIES
    EventsClaimedOnce
