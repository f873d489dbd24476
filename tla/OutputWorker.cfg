CONSTANTS
    ControlJson = TRUE
    PacketCount = 1
    Transport = 1
    MaxRecords = 2
    PrinterRecords = 5
    MaxClients = 2
SPECIFICATION MCSpec
INVARIANTS PacketsAreConserved NoPrintIsForgotten CollectionFollowsTheClient
PROPERTIES StopEndsThreads LossesAreReported
