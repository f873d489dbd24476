CONSTANTS
    Capacity = 8
    PushAlignment = 1
    PopAlignment = 3
    PushSizes = {1, 3}
    InputPushSizes = {3, 6}
    PopSizes = {3, 6}
    MayDiscard = FALSE
    MaxIndex = 18
    Slots = 1
    Period = 2
    MaxBlocks = 3
    MaxSubscriptions = 2
SPECIFICATION MCSpec
INVARIANTS NoDataRace ChannelsKeepTheirPlace EntriesAreIntact RecordsAreAccountedFor OneLoopServes
PROPERTIES IsAQueue ListenersAreServed
