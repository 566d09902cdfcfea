SPECIFICATION TrustSpec
CONSTANTS
    NumVms = 2
    NumVcpus <- TwoVmVcpus
    MaxVcpu = 2
    PoolSize = 5
    NSlots = 3
    Slots <- TwoVmSlots
    RealTime = {2}
    Backup = {2}
    ThreshDegraded = 2
    ThreshQuarantine = 4
    MaxAttempts = 2
    CleanPeriod = 2
PROPERTY QuarantineHolds
