SPECIFICATION Spec
CONSTANTS
    Percent = 1
    Cycle = 3
    Capacity = 2
    MaxTip = 3
    MaxConnections = 2
INVARIANTS TypeOK NothingMissed WorkersObey
PROPERTIES NewsArrives OnlyTheEdgeIsOff
CHECK_DEADLOCK FALSE
