SPECIFICATION Spec
CONSTANTS
    Procs = {p1}
    NoProc = NoProc
    Artifacts = {a1, a2}
    Ledger = Ledger
    ExternalBodies = {foreign}
    Absent = Absent
    Torn = Torn
    RawRace = TRUE
    MaxCommits = 1
    MaxEdits = 0
    MaxFaults = 1
SYMMETRY SessionSymmetry
INVARIANT
    OwnedResidueRewritten
