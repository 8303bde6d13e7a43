SPECIFICATION FairSpec
CONSTANTS
    g1 = g1
    g2 = g2
    a1 = a1
    None = None
    Runs <- MCFewRuns
    Generations <- MCFewGenerations
    Entry <- MCEntry
    LeaseTicks = 1
    MaxNow = 2
PROPERTIES
    EveryRunSettles
