SPECIFICATION Spec
CONSTANTS
    a = a
    b = b
    Jobs = {a, b}
    Nonces = {0, 1, 2}
    Solves <- MCSolves
    Setups <- Tails
    MaxLaunches = 2
INVARIANTS NothingWrong
CHECK_DEADLOCK FALSE
