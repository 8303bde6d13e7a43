SPECIFICATION Spec
CONSTANTS
    g1 = g1
    g2 = g2
    a1 = a1
    None = None
    Runs <- MCRuns
    Generations <- MCGenerations
    Entry <- MCEntry
    LeaseTicks = 1
    MaxNow = 2
INVARIANTS
    RunAndJobAgree
    CalledAtMostOnce
    SuccessIsWhole
    LooseBytesAreReserved
    NoRunIsForgotten
    ShutdownSettles
PROPERTIES
    DecisionsAreFinal
