\* Two SVM ranges invalidated at the same time.
CONSTANTS
    Setups <- TwoRanges
    MaxFails = 1
    MaxDevices = 2
    MaxSuspends = 2
SPECIFICATION Spec
INVARIANTS StoppedOnReturn
CHECK_DEADLOCK FALSE
