SPECIFICATION Spec
CONSTANTS
    a = a
    b = b
    Jobs = {a, b}
    Nonces = {0, 1, 2}
    Solves <- MCSolves
    Setups <- MCSetups
    MaxLaunches = 2
INVARIANTS ReportedSolves FoundIsReported
CHECK_DEADLOCK FALSE
