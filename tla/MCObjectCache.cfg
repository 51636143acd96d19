CONSTANTS
    p1 = p1
    p2 = p2
    Procs = {p1, p2}
    LinkerOutput <- OwnLinkers
    Faults = {"crash", "power_loss", "clean_up", "io"}
    MaxFaults = 1
SPECIFICATION FairSpec
INVARIANTS CachedProgramIsWhole OneKey
PROPERTY CacheHeals
