CONSTANTS
    Files = {f1, f2}
    Contents = {a, b}
    Broken = {}
    None = None
    MaxEdits = 2
    MaxRequests = 2
    MaxFailures = 1
SPECIFICATION Spec
INVARIANTS ReadyProgramIsTheSnapshot QuietProgramIsCurrent ChildFollowsTheUser
PROPERTIES ResumesTheCurrentProgram NewestSourcesRun
