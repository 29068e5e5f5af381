CONSTANTS
    a = a
    b = b
    None = None
    Users = {a, b}
    Handlers = {c1, c2}
    Reqs = {r1, r2}
    Loads <- AllLoads
    MaxMessages = 3
SPECIFICATION Spec
SYMMETRY Sided
CHECK_DEADLOCK FALSE
INVARIANTS OneLetterPerRequest RequestReaches
PROPERTIES FollowsProtocol
