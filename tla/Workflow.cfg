SPECIFICATION Spec
CONSTANTS
    w1 = w1
    w2 = w2
    t1 = t1
    m1 = m1
    m2 = m2
    f1 = f1
    ask = ask
    chat = chat
    nurture = nurture
    loop = loop
    p1 = p1
    n0 = n0
    n1 = n1
    n2 = n2
    n3 = n3
    n4 = n4
    NoPeriod = NoPeriod
    NoEvent = NoEvent
    NoNode = NoNode
    NoWorker = NoWorker
    ActionNode = ActionNode
    Sender <- MCWorkers
    Period <- MCPeriod
    Limit <- MCLimit
    Event <- MCEvent
    Conversation <- MCConversation
    Workflow <- MCWorkflow
    Priority <- MCPriority
    Graph <- MCGraph
    Shape <- MCShape
    Node <- MCNode
    MaxCount = 99
    WebhookAttempts = 4
    WorkflowAttempts = 3
    MaxStalls = 1
    MaxSteps = 5
    DmCap = 2
    MaxAsks = 2
    MaxUpsets = 1
CHECK_DEADLOCK FALSE
SYMMETRY Symmetry
INVARIANTS
    WorkflowTypeOK
    EventsTakenOnce
    RepliesAnswerOnce
    FlowDmsCostFaults
    NoRunAbandoned
    StopStopsFlows
