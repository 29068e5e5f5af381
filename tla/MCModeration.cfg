SPECIFICATION Spec
CONSTANTS
    c1 = c1
    c2 = c2
    guest = guest
    Users = {author, guest, staff}
    Author = author
    Staff = {staff}
    Comments = {c1, c2}
    None = None
    Handlers = {h1, h2}
    TheMoment = post
    Loads <- AllLoads
    MaxReports = 2
    MaxSanctions = 2
SYMMETRY Symmetric
INVARIANTS CountsMatch SanctionedStaysOut ReversedIsLifted
PROPERTIES SettledStays
CHECK_DEADLOCK FALSE
