SPECIFICATION Spec
CONSTANTS
    Users <- ThreeGroups
    MSGS = 2
    NBuf = 3
    NTx = 2
    MaxUses = 4
    Faults = {FALSE, TRUE}
INVARIANTS SlotsHeld NoBufferLost AnswersMatch
PROPERTIES Answered
CHECK_DEADLOCK FALSE
