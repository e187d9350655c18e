SPECIFICATION Spec
CONSTANTS
    Pairs <- AllPairs
    MaxRuns = 3
    MaxTries = 3
    Faults <- FaultPoints
INVARIANTS TableOfThisRun GivenBack HearsDriver
PROPERTIES FreshDriver EachRunMet
CHECK_DEADLOCK FALSE
