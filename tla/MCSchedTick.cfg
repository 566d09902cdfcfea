SPECIFICATION TimerFairSpec
CONSTANTS
    NumVms = 3
    NumVcpus <- ThreeVmVcpus
    MaxVcpu = 2
    PoolSize = 7
    NSlots = 4
    Slots <- ThreeVmSlots
    RealTime = {2}
PROPERTY FailoverTakesEffect
