CONSTANTS
    Params = {gain, mode}
    Smoothed = {gain}
    Values = {0, 1, 2}
    Infinite = {2}
    Default = 0
    Durations = {0, 3, 5}
    None = None
    Block = 2
    Batch = 2
    MaxCommands = 4
SPECIFICATION Spec
INVARIANTS CopiesAgree RampsAreSound
PROPERTIES ReadsFollowWrites RampsArrive
