SPECIFICATION Spec
CONSTANTS
    Percent = 1
    Cycle = 3
    Capacity = 2
    MaxTip = 3
    MaxConnections = 2
PROPERTY ImplementsSchedule
CHECK_DEADLOCK FALSE
