CONSTANTS
    MaxSteps = 2
    MaxToolCalls = 2
    MaxReplans = 1
    MaxRuns = 2
    MaxOthers = 1
    Plans <- MCPlans
    t1 = t1
    t2 = t2
    Tasks <- MCTasks
    Requests = {"r"}
    MaxTurns = 2
    Chain <- MCChain
SPECIFICATION Spec
INVARIANTS TypeOK ExecutedOnce ObserverAgrees HistoryIsComplete
PROPERTIES TerminalIsFinal
SYMMETRY Symmetry
CHECK_DEADLOCK FALSE
