CONSTANTS
    ControlJson = TRUE
    PacketCount = 2
    Transport = 1
    MaxRecords = 3
    MaxClients = 2
SPECIFICATION Spec
INVARIANT TerminalOutputIsSeen
