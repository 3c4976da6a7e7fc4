SPECIFICATION PartsSpec
SYMMETRY Symmetry
CONSTANTS
    None = None
    c1 = c1
    c2 = c2
    someone = someone
    view1 = view1
    view2 = view2
    line1 = line1
    val1 = val1
    val2 = val2
    id1 = id1
    id2 = id2
    u1 = u1
    g1 = g1
    b1 = b1
    b2 = b2
    k1 = k1
    k2 = k2
    q1 = q1
    q2 = q2
    chair = chair
    ann = ann
    bob = bob
    tok1 = tok1
    tok2 = tok2
    Clients <- MCClients
    MinimumFree = 2
    MaximumGrowth = 2
    FreeReadings <- MCFreeReadings
    SwapReadings <- MCSwapReadings
    InitialEpochs <- MCInitialEpochs
    MaxRevision = 2
    Hours = 3
    SleepRequests <- MCPasses
    SleepWindow <- MCWindow
    MinSleep = 1
    MaxRestarts = 1
    Nights <- MCNights
    MaxWorking = 1
    MaxEpisodic = 1
    MaxResults = 4
    People <- MCPeople
    MaxItems = 2
    MaxSeq = 6
    Projections <- MCProjections
    Lineages <- MCLineages
    Values <- MCValues
    RequestIds <- MCRepairIds
    RepairClock <- MCInstants
    ConsentTimes <- MCConsentTimes
    MaxRequests = 3
    MaxBundles = 4
    Sessions = {"home", "away"}
    Remarks <- MCRemarks
    Reply <- MCReply
    LegacyFacts <- MCLegacyFacts
    Shadowed = TRUE
    Wanted <- MCWanted
    MaxRecent = 3
    MaxRecalled = 2
    MaxLines = 4
    MaxTopics = 1
    MaxTold = 2
    PermittedUsers <- MCUsers
    Grants <- MCGrants
    Effects <- MCEffects
    LimitedAuto <- MCLimited
    AlwaysConfirm <- MCAlways
    RiskRequests <- MCRequests
    ReceiptTtl = 1
    GrantTtl = 2
    MaxClock = 2
    MaxAudit = 4
    ActionRequests <- MCActions
    LastSecond = 2
    Subjects <- MCSubjects
    RolePermissions <- MCRights
    TokenIds <- MCTokenIds
    TokenClock <- MCSeconds
    MaxTtl = 1
    MaxGrants = 2
CHECK_DEADLOCK FALSE
INVARIANTS
    TypeOK
    JournalStaysRecordable
    CachesFollowTheJournal
    AdmittedWithinLimits
PROPERTIES
    FailureFreezes
    TowardsDenial
    MemoriesAreSound
    MemoryIsGoverned
    PermissionsAreCovered
