CONSTANTS
    a1 = a1
    a2 = a2
    Builds = {1, 2}
    Operations = {1, 2}
    Apks = {a1, a2}
    None = None
    MaxRevision = 2
    Loads <- AllLoads
    Kept = 1
SPECIFICATION Spec
INVARIANTS PublishedAsConfirmed RestIsSettled Recoverable ServedAsPromoted
PROPERTIES NeverRetracted
CHECK_DEADLOCK FALSE
