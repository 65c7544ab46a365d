SPECIFICATION MemorySpec
CONSTANTS
    h1 = h1
    h2 = h2
    d1 = d1
    d2 = d2
    q1 = q1
    q2 = q2
    Contracts = {1}
    Hooks = {h1, h2}
    Requests = {d1, d2}
    MaxNeeds = 2
    MaxAttempts = 2
    Scenarios <- MCScenarios
    Tasks = {1, 2, 3, 4, 5}
    Roots <- MCRoots
    Derived = {5}
    Context <- MCContext
    Queries = {q1, q2}
    MaxRevs = 2
    Threshold = 3
    Methods <- MCMethods
    Together <- MCTogether
INVARIANTS RemindersSound MethodsSound
PROPERTIES MemorySettles
CHECK_DEADLOCK FALSE
