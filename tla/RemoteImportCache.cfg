CONSTANTS
    Procs = {p1, p2}
    MaxVersion = 2
    Faults = {"crash", "network"}
    MaxFaults = 1
SPECIFICATION FairSpec
INVARIANTS ConfirmedTextIsCurrent ValidatorNamesTheBody
PROPERTY CutOffBodiesGo
