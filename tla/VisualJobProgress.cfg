\* Motions are posted to the bridge directly, and no budget watches the job.
CONSTANTS
    None = None
    r1 = r1
    r2 = r2
    Requests <- MCRequests
    Calls <- FewCalls
    Portable = FALSE
    Monitored = FALSE
SPECIFICATION FairSpec
CHECK_DEADLOCK FALSE
PROPERTIES
    EveryJobIsReleased
    EveryOperationReturns
