\* Six chunks of two bytes; sizes of one to three chunks, exact and not, and
\* the whole buffer.
CONSTANTS
    Objs = {o1, o2, o3, o4}
    NULL = NULL
    NumOfChunks = 6
    ChunkSize = 2
    Sizes = {0, 1, 2, 3, 4, 5, 12, 13}
SPECIFICATION FairSpec
INVARIANTS ObjectsPartitionBitmap 
PROPERTIES FailsOnlyWhenFull TakesFirstFit SearchEnds
CHECK_DEADLOCK FALSE
