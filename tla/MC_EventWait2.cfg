CONSTANTS
    w1 = w1
    w2 = w2
    s1 = s1
    e1 = e1
    e2 = e2
    NULL = NULL
    Waiters <- MCWaiters2
    Setters <- MCSetters
    Events <- MCEvents1
    AutoReset = {e1}
    Aged = {}
    Destroyable = {e1}
    Timeouts = {"finite", "infinite"}
    Signals = {"signal"}
    Faults = FALSE
    MaxEvents = 1
    MaxAge = 2
    MaxSignals = 1
SPECIFICATION FairSpec
PROPERTIES MetWaitReturns TimedWaitReturns
CHECK_DEADLOCK FALSE
