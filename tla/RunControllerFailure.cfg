CONSTANTS
    Files = {f1}
    Contents = {a, bad}
    Broken = {bad}
    None = None
    MaxEdits = 2
    MaxRequests = 0
    MaxFailures = 0
SPECIFICATION Spec
INVARIANT QuietFailureIsReal
