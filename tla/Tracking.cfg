CONSTANTS
    w1 = w1
    w2 = w2
    o1 = o1
    n1 = n1
    Runners = {w1, w2}
    Operators = {o1}
    Answers = {"STILL_PRESENT"}
    Notes = {n1}
    MaxChecks = 2
    MaxRetries = 2
    MaxHistory = 2
    MaxJobs = 4
    MaxFaults = 1
    MaxChanges = 2
SPECIFICATION Spec
INVARIANTS OneChainPerFault StatusIsPursued HistoryIsNews ResolutionIsResidents
PROPERTIES PollingEnds
CHECK_DEADLOCK FALSE
