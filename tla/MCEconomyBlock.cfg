CONSTANTS
    A = 1
    B = 2
    Platform = 9
    thread = thread
    moment = moment
    t1 = t1
    t2 = t2
    v1 = v1
    v2 = v2
    b1 = b1
    f1 = f1
    u1 = u1
    NoTxn = NoTxn
    NoRow = NoRow
    User = {1, 2}
    Relation = {b1, f1, u1}
    RelOf <- MCRelOf
    Holder <- MCHolder
    WalletRank <- MCWalletRank
    Content = {thread, moment}
    KindOf <- MCKindOf
    OwnerOf <- MCOwnerOf
    Tip = {t1, t2}
    Visit = {v1, v2}
    Scenarios <- MCScenarios
    VisitorOf <- MCVisitorOf
    Funds <- MCFunds
    Rewards = {1, 2}
    CheckInExperience = 2
    MaxTries = 2
    Changes = 1
    LastDay = 2
SPECIFICATION Spec
PROPERTIES TipRespectsBlock
CHECK_DEADLOCK FALSE
