CONSTANTS
    w1 = w1
    w2 = w2
    s1 = s1
    e1 = e1
    e2 = e2
    NULL = NULL
    Waiters <- MCWaiters1
    Setters <- MCSetters
    Events <- MCEvents2
    AutoReset = {e1}
    Aged = {e1}
    Destroyable = {e1, e2}
    Timeouts = {"zero", "finite"}
    Signals = {"signal", "fatal"}
    Faults = TRUE
    MaxEvents = 2
    MaxAge = 2
    MaxSignals = 1
SPECIFICATION Spec
INVARIANTS FirstCheckNeverFails FreedWaitersHaveLeft SignalIsKept NoLostWakeup AgeChangeActivates 
CHECK_DEADLOCK FALSE
