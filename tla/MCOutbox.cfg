CONSTANTS
    e1 = e1
    e2 = e2
    l1 = l1
    l2 = l2
    NoEvent = NoEvent
    Dispatcher = {d1, d2}
    Event <- MCEvent
    Listener <- MCListener
    ListenersOf <- MCListenersOf
    Malformed <- MCMalformed
    Lease = 2
    RetryMin = 1
    RetryStep = 1
    RetryMax = 2
    Faults = 2
    MaxAttempts = 3
SPECIFICATION FairSpec
INVARIANTS OneOwner ProcessedMeansHandled
PROPERTIES LeaseUndisturbed AtLeastOnce EventuallyProcessed
CHECK_DEADLOCK FALSE
