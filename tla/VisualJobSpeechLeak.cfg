CONSTANTS
    None = None
    r1 = r1
    r2 = r2
    Requests <- MCRequests
    Calls <- AllCalls
    Portable = TRUE
    Monitored = TRUE
SPECIFICATION Spec
CHECK_DEADLOCK FALSE
INVARIANTS SpeechAccountedFor
