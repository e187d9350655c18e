SPECIFICATION Spec
CONSTANTS
    PKGS_TOTAL = 3
    Slots = 4
    Os = "freertos"
    HostWaits = TRUE
    Faults = FALSE
PROPERTIES EventuallyDone
CHECK_DEADLOCK FALSE
