\* Two nodes, an interrupt handler and one that is a work, rings of two entries of two words.
CONSTANTS
    a = a
    b = b
    c = c
    NULL = NULL
    NumNodes = 2
    ISRs = {i1, i2}
    Works = {i2}
    Entries = {a, b, c}
    NodeOf <- NodeOfTwo
    EntrySize = 2
    NumEntries = 2
    MaxInterrupts = 4
SPECIFICATION FairSpec
INVARIANTS NothingStranded NoWorkAfterFree
PROPERTIES IsChannel EntriesAreHandled
CHECK_DEADLOCK FALSE
