SPECIFICATION LoadSpec
CONSTANTS
    RpuSegments <- MCRpuSegments
    ApuSegments <- MCApuSegments
    MaxSegments = 2
    Faults = {"init", "map", "store", "wake", "down"}
INVARIANTS LeftDown
PROPERTIES WrittenRequested StartComplete
