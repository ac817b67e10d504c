SPECIFICATION Spec
CONSTANTS
    Free = Free
    Percent = 1
    Cycle = 3
    MaxId = 4
    MaxSessions = 2
INVARIANT ForwardMeetsNobody
CHECK_DEADLOCK FALSE
