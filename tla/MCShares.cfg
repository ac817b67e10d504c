SPECIFICATION Spec
CONSTANTS
    ByteBits = 1
    WordBytes = 4
    Factor = 3
    Exponent = 13
    PollEvery = 2
    Difficulties <- MCDifficulties
    Extranonces <- MCExtranonces
    Bits <- MCBits
    Pow <- MCPow
    Seeds = {0, 13}
    Probes = {8, 15}
    MaxJobs = 2
    MaxDifficulties = 1
    MaxExtranonces = 2
INVARIANTS TypeOK MeetsTarget TargetAsAsked InPartition
PROPERTY EveryNonceTried
CHECK_DEADLOCK FALSE
