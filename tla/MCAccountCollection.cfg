SPECIFICATION Spec
CONSTANTS
    j1 = j1
    Job <- MCJob
    MaxStarts = 3
    MaxAtOnce = 2
    MaxFaults = 1
INVARIANTS
    TypeOK
    PublishedIsWhole
    BytesAreTracked
    NoJobIsForgotten
    CleanStopIsClean
PROPERTIES
    DecisionsAreFinal
CHECK_DEADLOCK FALSE
