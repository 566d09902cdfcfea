SPECIFICATION HeartbeatSpec
CONSTANTS
    NumVms = 3
    NumVcpus <- ThreeVmVcpus
    MaxVcpu = 2
    PoolSize = 5
    NSlots = 4
    Slots <- ThreeVmSlots
    RealTime = {2}
    PollEvery = 3
PROPERTIES NoVmStarves FailoverTakesEffect PollsWhileVmsRun
