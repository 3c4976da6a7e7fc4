\* Two callers of one process.
CONSTANTS
    Processes = {p1}
    MaxWorkers = 3
    MaxReady = 3
SPECIFICATION WorkerSpec
CHECK_DEADLOCK FALSE
INVARIANTS
    OneLoop
