CONSTANTS
    w1 = w1
    w2 = w2
    s1 = s1
    e1 = e1
    e2 = e2
    NULL = NULL
    Waiters <- MCWaiters1
    Setters <- MCSetters
    Events <- MCEvents1
    AutoReset = {e1}
    Aged = {e1}
    Destroyable = {e1}
    Timeouts = {"zero", "finite"}
    Signals = {"signal", "fatal"}
    Faults = TRUE
    MaxEvents = 1
    MaxAge = 2
    MaxSignals = 1
SPECIFICATION Spec
INVARIANT CopiesFromLiveEvents
CHECK_DEADLOCK FALSE
