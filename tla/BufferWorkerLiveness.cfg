CONSTANTS
    Buffers = {b1}
    LoadQueue = 1
    Batch = 2
    MaxCommands = 2
SPECIFICATION Spec
PROPERTIES BindsAreAnswered StopEndsThreads
