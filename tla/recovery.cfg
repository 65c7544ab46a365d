SPECIFICATION FairSpec
CONSTANTS
    r1 = r1
    x1 = x1
    x2 = x2
    a1 = a1
    a2 = a2
    c1 = c1
    c2 = c2
    ToolCalls = {r1}
    Handlers = {x1, x2}
    Attempts = {0, 1}
    Applications = {a1, a2}
    Callers = {c1, c2}
    Scenarios <- MCScenarios
INVARIANTS PointsHonest AppliedHonestly
PROPERTIES RecoveryEnds
CHECK_DEADLOCK FALSE
