SPECIFICATION ServicesSpec
CONSTANTS
    None = None
    p1 = p1
    p2 = p2
    c1 = c1
    v1 = v1
    Worker = Worker
    Closer = Closer
    t1 = t1
    t2 = t2
    h1 = h1
    r1 = r1
    r2 = r2
    s1 = s1
    s2 = s2
    n1 = n1
    d1 = d1
    d2 = d2
    d3 = d3
    m1 = m1
    m2 = m2
    Processes <- MCProcesses
    MaxWorkers = 3
    MaxReady = 2
    Chats <- MCChats
    Scenes <- MCScenes
    QueueCapacity = 1
    FailureThreshold = 2
    MaxCrashLoops = 1
    Turns <- MCTurns
    Phases <- MCPhases
    MaxVoices = 2
    TurnRequests <- MCTurnIds
    Sessions <- MCSessions
    SessionOf <- MCSessionOf
    HistoryLimit = 1
    MaxCancels = 1
    MaxSidecarFaults = 1
    Hours = 3
    SleepRequests <- MCPasses
    SleepWindow <- MCWindow
    MinSleep = 1
    MaxRestarts = 1
    Notices <- MCNotices
    MaxAttempts = 3
    QueueLimit = 1
    MaxCrashes = 1
    Deliveries <- MCDeliveries
    Messages <- MCMessages
    MaxTries = 1
    MaxKept = 1
CHECK_DEADLOCK FALSE
INVARIANTS
    LoopsAreOwned
PROPERTIES
    HeavyWorkIsExclusive
    EveryWaitEnds
