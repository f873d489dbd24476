CONSTANTS
    Buffers = {b1, b2}
    LoadQueue = 1
    Batch = 2
    MaxCommands = 3
SYMMETRY BufferSymmetry
SPECIFICATION Spec
INVARIANTS AnswersAreTruthful AcknowledgedClearStays StorageIsSafe
PROPERTIES OnlyTheNewestCommandBinds
