SPECIFICATION Spec
CONSTANTS
    Handlers = {h1, h2}
    Workers = {w1, w2}
    Contents = {p, q}
    None = None
    Loads <- AllLoads
    Attempts = 2
    GraceDays = 2
    MaxDays = 3
    MaxFaults = 2
INVARIANTS Servable RowOutlivesMaster
PROPERTIES ClaimGrace FinishedStays Settles
CHECK_DEADLOCK FALSE
