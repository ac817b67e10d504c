SPECIFICATION Spec
CONSTANTS
    n1 = n1
    n2 = n2
    n3 = n3
    n4 = n4
    a1 = a1
    i1 = i1
    Gpus <- MCGpus
    Names <- MCNames
    Name <- MCName
    Branded <- MCBranded
    Machines <- MCMachines
    Options <- MCOptions
    NoLimit = 9
INVARIANTS TypeOK CountIsBuilt FallsBackOnSameGpu NoneForgotten NoGpuTwice CeilingKept KernelFits
CHECK_DEADLOCK FALSE
