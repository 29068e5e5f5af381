CONSTANTS
    Users = {u, v}
    Workers = {w1, w2}
    None = None
    Loads <- AllLoads
    KeptKeys = 1
    MaxTries = 2
    MaxEvents = 3
    MaxNotes = 2
    MaxFaults = 1
SPECIFICATION LikesSpec
CHECK_DEADLOCK FALSE
INVARIANTS TotalsMatch AckedMeansCounted
PROPERTIES CacheConverges
