SPECIFICATION Spec
CONSTANTS
    Demos = {"ping", "flood", "matrix", "sample"}
    N = 4
    Rounds = 2
    NBuf = 2
    Faults = {FALSE, TRUE}
INVARIANTS LockstepHonest NoFalseAlarm ServerOutlivesWork
PROPERTIES BothEnd
CHECK_DEADLOCK FALSE
