CONSTANTS
    r1 = r1
    r2 = r2
    r3 = r3
    Request = {r1, r2, r3}
    Scenarios <- MCScenarios
    MaxFailures = 2
    LockTime = 1
    Grace = 1
    Timeout = 2
    Lifetime = 3
    MaxTime = 3
    NoRequest = NoRequest
SPECIFICATION Spec
INVARIANTS OneTerminalPerPlatform EndedStayEnded
PROPERTIES RevokeMissesOnlySuccessors
CHECK_DEADLOCK FALSE
