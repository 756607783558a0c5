\* Every device of AllSetups, with its faults and bounds.
CONSTANTS
    p1 = p1
    p2 = p2
    p3 = p3
    q1 = q1
    q2 = q2
    q3 = q3
    Procs = {p1, p2, p3}
    Queues = {q1, q2, q3}
    Setups <- AllSetups
SPECIFICATION FairSpec
INVARIANTS CountsAreExact EvictedTogether RunlistIsKnown HardwareMatches
PROPERTIES DestroyerGoesOn
CHECK_DEADLOCK FALSE
