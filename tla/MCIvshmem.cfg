SPECIFICATION Spec
CONSTANTS
    NBuf = 2
    MaxN = 2
    MaxMsgs = 4
    Slow = {FALSE, TRUE}
    Faults = {FALSE, TRUE}
INVARIANTS NoBellLost StartSound SuccessHonest
PROPERTIES CmdEnds
CHECK_DEADLOCK FALSE
