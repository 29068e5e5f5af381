CONSTANTS
    o = o
    f = f
    User = {o, f}
    Worker = {w1, w2}
    Scenarios <- MCScenarios
    Contents <- MCContents
    FanoutFaults = 1
    Changes = 2
    NoTask = NoTask
    NoUser = NoUser
SPECIFICATION FanoutSpec
SYMMETRY Dispatchers
INVARIANTS OnePerAttempt AckedMeansNotified
CHECK_DEADLOCK FALSE
