SPECIFICATION PartsSpec
CONSTANTS
    None = None
    c1 = c1
    v1 = v1
    r1 = r1
    r2 = r2
    r3 = r3
    s1 = s1
    s2 = s2
    n1 = n1
    n2 = n2
    d1 = d1
    d2 = d2
    d3 = d3
    m1 = m1
    m2 = m2
    room = room
    e1 = e1
    e2 = e2
    o1 = o1
    o2 = o2
    a1 = a1
    a2 = a2
    a3 = a3
    yes1 = yes1
    Chats <- MCChats
    Scenes <- MCScenes
    Worker = Worker
    Closer = Closer
    QueueCapacity = 1
    FailureThreshold = 2
    MaxCrashLoops = 1
    TurnRequests <- MCTurnIds
    Sessions <- MCSessions
    SessionOf <- MCSessionOf
    HistoryLimit = 1
    MaxCancels = 1
    MaxSidecarFaults = 1
    Notices <- MCNotices
    MaxAttempts = 2
    QueueLimit = 2
    MaxCrashes = 0
    Deliveries <- MCDeliveries
    Messages <- MCMessages
    MaxTries = 1
    MaxKept = 1
    StateClaims <- MCClaims
    Lifetime <- MCLifetime
    LastTick = 3
    MaxFutureSkew = 1
    BatchSize = 2
    Scale = 2
    Points <- MCPoints
    MaxWalk = 8
    Width = 4
    Height = 3
    AgentCells <- MCStart
    Targets <- MCTarget
    Reach <- MCReach
    Offers <- MCOffers
    Prices <- MCPrices
    ShortWindow = 2
    ShortLimit = 2
    LongWindow = 2
    LongLimit = 2
    WorkWindow = 2
    MenuLimit = 1
    WorkLimit = 2
    Pittance = 0
    Modest = 2
    Comfort = 5
    Captures <- MCCaptures
    Groundings <- MCGroundings
    MinRays = 2
    ClusterGap = 2
    LayerGap = 0
    Behind = 1
    Margin = 1
    Bodies <- MCBodies
    FirstView <- Whole
    ArrivalViews <- MCViews
    FirstPlaces <- MCPlaces
    TargetBox <- MCTargetBox
    TargetKind = "sofa"
    TargetColor = "purple"
    Detections <- MCDetections
    Stops <- MCStops
    Plans <- MCPlans
    Slack = 1
    Near = 2
    Drift = 2
    MaxDoubt = 7
    ImageSide = 8
    MaxUpsets = 1
    Dictionary = {"sofa", "chair"}
    Inventories <- MCInventories
    Wishes <- MCWishes
    Selections <- MCSelections
    Verifications <- MCVerifications
    CellSize = 4
    Columns = 7
    Rows = 6
    Terrains <- MCTerrains
    Clearance = 1
    Extras = {0, 1, 3}
    Ways <- MCWays
    Ends <- MCEnds
    ArrivalRadius = 3
    Seats = {"sofa"}
    Routines = {"presence_cycle"}
    Liking <- MCLiking
    Situations <- MCSituations
    PlanAnswers <- MCPlanAnswers
    MaxSteps = 5
    FrameSessions = {e1, e2}
    FrameShots <- MCShots
    Rooms <- MCRooms
    Radii = {1}
    Roles = {None, "physical_surface"}
    WorldMaxAge = 4
    MaxSkew = 2
    MaxAge = 2
    SyncAttempts = 2
    CacheSize = 1
    Leaps = {3}
    LastMoment = 2
    MaxAnswers = 2
    GoalOwners = {o1, o2}
    RoleGoals <- MCRoleGoals
    UserGoals <- MCUserGoals
    VenueGoals <- MCVenueGoals
    SafeTypes = {"maintain_role", "guide_user", "manage_venue_flow"}
    Circumstances <- MCCircumstances
    LoopOrders <- MCLoopOrders
    LoopActions = {"greet", "wave"}
    MaxRepeated = 2
    PressureLimit = 2
    Beginning <- MCBeginning
    Sayings <- MCSayings
    FirstOffers <- MCFirstOffers
    QuietSpans <- MCQuietSpans
    Day = 3
    DefaultCooldown = 2
    LastHour = 1
    MaxKeys = 4
    MaxEvents = 5
    MaxDecided = 5
    Callers = {"her", "him"}
    Recordings <- MCRecordings
    HomeLanguage = "auto"
    Coalesces = TRUE
    ShortSpeech = 2
    MaxPiece = 1
    MaxMerged = 3
    Speakers = {"she", "he"}
    Orders <- MCOrders
    ChunkChars = 3
    LeastCut = 2
    SampleRates = {24, 48}
    RawPlans <- MCRawPlans
    Utterances <- MCUtterances
    SightRows <- MCSightRows
    Cooldown = 1
    SightAge = 1
    KeptActions = 2
    Window = 2
    LastInstant = 2
    MaxDecisions = 3
    MaxSights = 2
    Questions <- MCQuestions
    Persons = {"bob"}
    RawAnswers <- MCRawAnswers
    AnswerSize = 1
    MaxPrivateTurns = 2
    MaxPrivateChars = 4
    MaxPrivateSessions = 1
    MaxChats = 3
    Participants <- MCParticipants
    ConsentIds <- MCConsents
    MaxTurns = 4
    Guests <- MCGuests
    Badges <- MCBadges
    RolePolicy <- MCRolePolicy
    RoleIntents <- MCRoleIntents
    RoleTriggers <- MCRoleTriggers
    Categories <- MCCategories
    ResponseWindow = 1
    RequestNames <- MCRequestNames
    IncidentNames <- MCIncidentNames
    AppealNames <- MCAppealNames
    LastMinute = 1
    MaxSpeeches = 2
CHECK_DEADLOCK FALSE
INVARIANTS
    TurnsStayGrounded
    NoticesAreClaimed
    PathsAreClear
    ChoicesAreSound
    ActsWithinBounds
    SensesAreEvident
PROPERTIES
    BeliefsAreUnbeaten
    RoomsAreFair
