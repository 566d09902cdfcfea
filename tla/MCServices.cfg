SPECIFICATION ServicesSpec
CONSTANTS
    Capacity = 3
    Record = {r1, r2, r3}
    CountLimit = 9
    Blank = blank
    MaxVms = 2
    VmIds = {1}
    Depth = 3
    MsgMax = 2
    Byte = {a}
    Zero = zero
    Guests = {1, 2}
    NumLrs = 2
    Routes <- LinuxRoutes
    SpaceVms = {1, 2}
    Entries = 2
    PtPoolPages = 11
    Regions <- ProfileRegions
    EarlyPage <- LinuxPage
    MaxShmemRegions = 2
    ShmemPoolPa = 40
    ShmemPoolSz = 2
    ShmIpas = {1, 7}
    ShmSizes = {1, 2}
    ShmPairs <- SharePairs
    Invalid = invalid
    StatVms = {1, 2}
    SlotVm <- StatSlots
    BootSlice <- StatSlices
    MinSlice = 1
    MaxSlice = 3
    SliceArgs = {0, 9}
    MaxSwitches = 3
    PmuVcpus = {1, 2}
    EventTypes = {0}
    Values = {1}
    MaxCount = 2
    BootVms = {1, 2}
    Components = {text, rodata}
    MaxTries = 3
    BootStep = 0
    LastStep = 2
    Configs = {c1, c2}
    MaxPayload = 2
    SealBytes = {0, 1}
    NoBlob = none
    InjWidth = 9
    MaxUpdates = 14
    MaxRestarts = 1
    SlicesPerTrack = 30
    ReportEvery = 2
    Modulus = 8
    MaxTracks = 3
    HvcNames = {"VM_GET_ID", "SCHED_YIELD"}
    Unserved = {"PMU_QUERY"}
    Polls = 3
    PollModulus = 16
    MaxStreams = 4
    MaxRegions = 3
    MaxMem = 8
    NumContexts = 4
    NumOwned = 2
    Runs = 2
    Block = 8
    LenField = 2
    Digest = 4
    MaxKey = 9
    MaxChunk = 17
    MaxMsg = 18
    BufSize = 65536
    StrtabCap = 1024
    InitrdSize = 2097152
INVARIANTS
    
     StaleOnlyWhereShared StatsAgree CyclesConserved
    NoVmUnlessVerified  LinuxSeesLastUpdate
     
    GuestKeepsRegisters HashesWholeMessage LinuxFindsItsMemory
PROPERTIES
    KeepsLastRecords ImplementsFifo InterruptsStayWithVm
    RestartRestoresMemory  
