SPECIFICATION Spec
CONSTANTS
    c1 = c1
    c2 = c2
    Commands <- TwoCommands
    Uses <- BothUses
SYMMETRY Symmetry
INVARIANTS
    TypeOK
    StoppableWhileLive
    ArrivedIsCompleted
PROPERTIES
    StopBeatsAccept
    KeepsOwnership
CHECK_DEADLOCK FALSE
