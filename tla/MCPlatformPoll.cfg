SPECIFICATION Spec
CONSTANTS
    Ports = {"r5_freertos", "r5_generic", "zynqmp_linux", "linux_generic", "no_ipi"}
    MaxMsgs = 4
    ReadMax = 2
INVARIANTS NothingForgotten SleeperWoken HandlerWithinLife
PROPERTIES Delivers
