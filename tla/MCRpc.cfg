SPECIFICATION Spec
CONSTANTS
    Pairs = {"linux", "rpc", "proxy"}
    MaxRepeat = 2
    Faults = {"init", "send", "create", "shbuf", "copy", "open", "reply", "read"}
    Signals = {"exit", "kill"}
INVARIANTS OneAtATime ClosedBehind
PROPERTIES BothEnd ProxyExits
CHECK_DEADLOCK FALSE
