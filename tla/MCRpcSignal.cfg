SPECIFICATION Spec
CONSTANTS
    Pairs = {"linux", "rpc"}
    MaxRepeat = 0
    Faults = {}
    Signals = {"exit", "kill"}
PROPERTIES EndsOnSignal
CHECK_DEADLOCK FALSE
