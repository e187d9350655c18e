SPECIFICATION Safety
CONSTANTS
    PKGS_TOTAL = 3
    Slots = 4
    Os = "freertos"
    HostWaits = FALSE
    Faults = TRUE
INVARIANTS HostSuccessSound
CHECK_DEADLOCK FALSE
