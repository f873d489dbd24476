CONSTANTS
    Keys = {k1}
    NoKey = NoKey
    MidiNames = {"note_on", "note_off"}
    QueueCapacity = 1
    PendingLimit = 2
    MessagesPerBlock = 1
    BlockLen = 1
    MaxTime = 2
    MaxDrift = 2
    MaxPresses = 2
    MaxTriggers = 3
    MaxRequests = 0
    DeviceTriggers = 1
    DeviceRequests = 1
    DeviceInputs = 2
    OtherPresses = 1
    EndingTime = 1
    EndingCommands = 1
SPECIFICATION MCSpec
INVARIANTS SoundingNotesAreKnown PendingEventsAreOpen TriggersRunInOrder
PROPERTIES ReleasedKeysFallSilent ClientsAreAnswered
