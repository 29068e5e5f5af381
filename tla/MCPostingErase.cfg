CONSTANTS
    o = o
    guest = guest
    r = r
    Owner = o
    Others = {guest}
    Calls = {c1, c2}
    Reqs = {r}
    NoReq = NoReq
    Policies = {"PARTICIPANTS", "PLAYERS"}
    Texts = {"plain", "dice"}
    Loads <- DraftLoad
    MaxPosts = 3
    MaxSubs = 2
    MaxVersion = 2
    MaxPinned = 1
SPECIFICATION Spec
SYMMETRY Handlers
CHECK_DEADLOCK FALSE
PROPERTIES PublishedNeverErased
