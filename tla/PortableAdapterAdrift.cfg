SPECIFICATION Spec
CONSTANTS
    c1 = c1
    c2 = c2
    Commands <- TwoCommands
    Uses <- SpokenTo
INVARIANTS
    ReleasedIsAtRest
CHECK_DEADLOCK FALSE
