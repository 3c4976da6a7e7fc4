CONSTANTS
    None = None
    h = h
    a = a
    Requests <- WithOne
    Automatic <- OneAutomatic
    Calls <- HumanMoves
    Portable = TRUE
    Monitored = TRUE
SPECIFICATION AutonomyFairSpec
CHECK_DEADLOCK FALSE
INVARIANTS
    SupervisorTypeOK
    CountedOnce
    CountedSuccessStands
PROPERTIES
    HumansFirst
    PendingIsCollected
