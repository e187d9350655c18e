SPECIFICATION Spec
CONSTANTS
    PKGS_TOTAL = 3
    Slots = 4
    Os = "generic"
    HostWaits = TRUE
    Faults = FALSE
INVARIANTS TypeOK PublishedComplete NoSpuriousFailure ShutdownAfterEchoes NoKickLost
PROPERTIES DoneOrOverslept
