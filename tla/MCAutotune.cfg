SPECIFICATION Spec
CONSTANTS
    HwMin = 1
    HwMax = 8
    MinPower = 2
    MaxPower = 7
    Step = 2
    MaxErrors = 3
    Curves <- MCCurves
INVARIANTS TypeOK KnowsTheLimit
PROPERTIES BoundsRespected DropReturns Converges
CHECK_DEADLOCK FALSE
