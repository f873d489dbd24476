CONSTANTS
    Capacity = 8
    Channels = 3
    BlockFrames = 6
    AheadBlocks = 2
    CallbackFrames = 2
    CommandsPerBlock = 2
    MaxFrames = 6
SPECIFICATION Spec
INVARIANT StaleCountsAreCleared
