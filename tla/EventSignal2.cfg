\* Two GPUs: two handlers look for signaled slots at the same time.
CONSTANTS
    Events = {e1, e2, e3}
    NULL = NULL
    Limit = 4
    MappedSizes = {4}
    FewEvents = 0
    Strides = {2}
    Handlers = {h1, h2}
    Destroys = "never"
    MaxInterrupts = 2
SPECIFICATION Spec
INVARIANTS SignalsAreSeen
CHECK_DEADLOCK FALSE
