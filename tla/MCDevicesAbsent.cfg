SPECIFICATION DevicesSpec
CONSTANTS
    Polls = 3
    PollModulus = 16
    MaxStreams = 4
    MaxRegions = 3
    MaxMem = 8
INVARIANT AbsentDetected
