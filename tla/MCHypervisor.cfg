SPECIFICATION HypSpec
CONSTANTS
    NumVms = 2
    NumVcpus <- TwoVmVcpus
    MaxVcpu = 1
    PoolSize = 3
    NSlots = 2
    Slots <- TwoVmSlots
    RealTime = {2}
    Backup = {2}
    ThreshDegraded = 1
    ThreshQuarantine = 2
    MaxAttempts = 1
    CleanPeriod = 1
    FaultTypes = {1}
    StormFaults = 1
    StormWindow = 0
    RapidTime = 0
    RepeatCount = 2
    EnforceStorm = TRUE
    PollEvery = 2
PROPERTIES ImplementsSched FaultsChargeTheCulprit PromotionEarned
