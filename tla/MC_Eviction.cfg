\* Every mix of two evictors.
CONSTANTS
    Setups <- AllSetups
    MaxFails = 1
    MaxDevices = 2
    MaxSuspends = 2
SPECIFICATION FairSpec
INVARIANTS  UserPagesAreCurrent PagesNeverUnexpected RangesAreCurrent 
PROPERTIES QueuesComeBack EvictionIsServed
CHECK_DEADLOCK FALSE
