SPECIFICATION IdsFairSpec
CONSTANTS
    NumVms = 1
    NumVcpus <- OneVmVcpus
    MaxVcpu = 1
    PoolSize = 3
    NSlots = 1
    Slots <- OneVmSlots
    RealTime = {1}
    Backup = {1}
    ThreshDegraded = 2
    ThreshQuarantine = 4
    MaxAttempts = 2
    CleanPeriod = 3
    FaultTypes = {1, 2}
    StormFaults = 2
    StormWindow = 2
    RapidTime = 3
    RepeatCount = 3
    EnforceStorm = TRUE
PROPERTIES StormSound RepeatExact BlockReported CleanVmIsPromoted
