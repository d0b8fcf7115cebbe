SPECIFICATION Spec
CONSTANTS
    Procs = {p1}
    NoProc = NoProc
    Docs = {d1, d2}
    ExternalBodies = {good}
    Malformed = {}
    Inadmissible = {}
    Absent = Absent
    RawRace = FALSE
    ScanRace = FALSE
    MaxCommits = 1
    MaxEdits = 4
    MaxFaults = 0
PROPERTIES OnlyMissingInitialized
