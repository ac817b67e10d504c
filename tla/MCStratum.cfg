SPECIFICATION Spec
CONSTANTS
    Free = Free
    Percent = 1
    Cycle = 3
    MaxId = 4
    MaxSessions = 2
INVARIANTS TypeOK PendingIsAwaited
PROPERTY ImplementsSchedule
CHECK_DEADLOCK FALSE
