CONSTANTS
    a = a
    b = b
    c = c
    d = d
    e = e
    NoNode = NoNode
    NoPlugin = NoPlugin
    Node <- MCNode
    Children <- MCChildren
    NumWorkers = 3
    JobQueueCapacity = 1024
    CounterSize = 256
    MaxCycles = 2
    Cutoff = {0, 1, 2}
    Resonance = {0, 1}
    Buffers <- MCBuffers
    Loaded <- MCLoaded
    Signals <- MCSignals
    CosPhi <- MCCosPhi
    B2 <- MCB2
    buffer_size = 3
    MaxPeriods = 3
SPECIFICATION MCFairTimelySpec
INVARIANTS GraphFollowsRoutes SignalFollowsParameters PluginHearsParameters
           FilterFollowsParameters
PROPERTIES ImplementsDagSchedule CycleEnds
CHECK_DEADLOCK FALSE
