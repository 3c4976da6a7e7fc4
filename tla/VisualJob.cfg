CONSTANTS
    None = None
    r1 = r1
    r2 = r2
    Requests <- MCRequests
    Calls <- AllCalls
    Portable = TRUE
    Monitored = TRUE
SYMMETRY Symmetry
SPECIFICATION Spec
CHECK_DEADLOCK FALSE
INVARIANTS
    TypeOK
    OneOwner
    MotionAccountedFor
    SpeechFollowsMotion
    ArrivalIsReal
PROPERTIES
    AdmissionIsQuiet
    ReleasedIsFinal
    KeepsOwnership
