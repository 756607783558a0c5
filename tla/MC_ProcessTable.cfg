CONSTANTS
    m1 = m1
    m2 = m2
    o1 = o1
    o2 = o2
    l1 = l1
    l2 = l2
    NULL = NULL
    Procs <- MCProcs
    Mms <- MCMms
    Openers <- MCOpeners
    Lookers <- MCLookers
    Setups <- MCSetups
    MaxLocks = 2
SPECIFICATION FairSpec
INVARIANTS NoUseAfterFree RefsAreExact OneProcessPerMm OneReleaser
PROPERTIES ProcessIsFreed UnloadEnds
CHECK_DEADLOCK FALSE
