CONSTANTS
    MaxSteps = 2
    MaxToolCalls = 2
    MaxReplans = 1
    MaxRuns = 8
    MaxOthers = 0
    Plans = {}
    t1 = t1
    t2 = t2
    Tasks = {}
    Requests = {"r"}
    MaxTurns = 2
    Chain <- MCChain
SPECIFICATION Spec
INVARIANT AlwaysAnswers
CHECK_DEADLOCK FALSE
