SPECIFICATION Spec
CONSTANTS
    HwMin = 1
    HwMax = 8
    MinPower = 2
    MaxPower = 7
    Step = 2
    MaxErrors = 3
    Curves <- MCCurves
PROPERTIES NotStuckAtBound
CHECK_DEADLOCK FALSE
