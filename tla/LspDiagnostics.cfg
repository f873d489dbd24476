CONSTANTS
    Docs = {main, other, lib}
    Library = lib
    Sources <- MCSources
    Errors <- MCErrors
    None = None
    MaxMessages = 4
SPECIFICATION Spec
INVARIANTS IdleDiagnosticsAreCurrent ClosedEntriesShowNothing
PROPERTY AnalysesEnd
CHECK_DEADLOCK FALSE
