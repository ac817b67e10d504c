SPECIFICATION Spec
CONSTANTS
    cpu = cpu
    gpu = gpu
    CpuWorkers = {cpu}
    GpuWorkers = {gpu}
    Launched <- MCLaunched
    PollEvery = 2
    MaxCommands = 2
INVARIANTS TypeOK SyncFlagHonest ChannelOutlivesWorkers FallbackFirst
PROPERTIES ShutdownCompletes CpuCatchesUp GpuCatchesUp
CHECK_DEADLOCK FALSE
