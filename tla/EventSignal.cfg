\* One GPU whose interrupts carry one id bit (ids 1 and 3 share a partial id)
\* or none; a page mapped larger and smaller; events destroyed between interrupts.
CONSTANTS
    Events = {e1, e2, e3}
    NULL = NULL
    Limit = 4
    MappedSizes = {2, 3, 4}
    FewEvents = 3
    Strides = {0, 2}
    Handlers = {h1}
    Destroys = "quiet"
    MaxInterrupts = 2
SPECIFICATION FairSpec
INVARIANTS CountIsExact SignalsAreSeen
PROPERTIES SignaledIsSet
CHECK_DEADLOCK FALSE
